---- MODULE Spec2Model ----
(***************************************************************************)
(* A model of the AMQP 1.0 session and link engines of fe2o3-amqp:         *)
(* Session (fe2o3-amqp/src/session/mod.rs), LinkFlowState, LinkHandle and  *)
(* credit consumption (fe2o3-amqp/src/link/mod.rs), UnsettledMessage       *)
(* (fe2o3-amqp/src/link/delivery.rs).                                      *)
(*                                                                         *)
(* Every handler of the Session trait is one action.  u32 fields keep      *)
(* their width: an overflowing + or - panics when the build checks         *)
(* overflow (debug profile) and wraps modulo its width otherwise (release).*)
(* Option<T> is a sequence: <<>> is None, <<v>> is Some(v).                *)
(***************************************************************************)
EXTENDS Integers, Sequences, FiniteSets, TLC

\* ---------------------------------------------------------------- bounds
\* Session::handle_max as configured by the builder.
HandleMax == 1
\* Deliveries one link incarnation submits (its delivery-tag counter).
MaxTag == 3
\* Transfer frames that pass through Session::on_outgoing_transfer.
MaxTransfers == 3
\* Largest value carried by fields of incoming frames.
MaxField == 2
\* Deliveries submitted where Dispositions settle them.
MaxSettle == 2
\* Capacity of the session's control channel.
ControlCap == 1
\* Frames the peer sends to a running engine; Flows an attached receiver sends.
MaxArrivals == 2
\* Largest descriptor code a buffer to decode carries (0x30).
MaxCode == 48

\* u32 arithmetic: SequenceNo, TransferNumber, Handle, link_credit.  TLC
\* integers are 32-bit signed, so the modulus 2^32 is scaled to 2^30:
\* every sum of two values stays representable and wraps the same way.
U32 == 1073741824

LinkNames == {"a", "b", "c"}

None == <<>>
Some(v) == <<v>>
IsSome(o) == o # <<>>
Unwrap(o) == o[1]
UnwrapOr(o, d) == IF o = <<>> THEN d ELSE o[1]
OptionOf(S) == {None} \cup {Some(v) : v \in S}

\* x + y and x - y on u32: whether the checked operation overflows, and the
\* wrapped result.
AddOverflows(x, y) == x + y >= U32
SubOverflows(x, y) == x < y
WrappingAdd(x, y) == (x + y) % U32
WrappingSub(x, y) == (x - y + U32) % U32

SessionStates == {"Unmapped", "BeginSent", "BeginReceived", "Mapped",
                  "EndSent", "EndReceived", "Discarding"}
Roles == {"Sender", "Receiver"}
SettleModes == {"First", "Second"}

VARIABLES
    \* build profile and the fate of the session task
    overflow_checks,      \* TRUE: overflow panics; FALSE: overflow wraps
    panicked,             \* "no", or the place that panicked
    \* struct Session
    local_state,
    next_outgoing_id,
    remote_incoming_window,
    next_incoming_id,
    remote_outgoing_window,
    local_links,          \* Slab<LinkHandle>: the entries
    slab_next,            \* Slab<LinkHandle>: head of the free list
    link_by_name,
    link_by_input_handle,
    delivery_tag_by_id,
    \* per link (the relay's shared cells and the user-facing link)
    link_role,
    flow_state,           \* LinkFlowStateInner
    notified,             \* the Notify permit shared by Producer and Consumer
    unsettled,            \* UnsettledMap: tag -> Option<DeliveryState>
    receiver_settle_mode, \* LinkHandle::receiver_settle_mode
    output_handle,        \* the handle the link got from allocate_link
    send,                 \* position of the link's send call
    next_tag,             \* the link's delivery-tag counter
    outcome,              \* one-shot per unsettled delivery: None, or Some(what was sent)
    presettled,           \* tags of deliveries sent pre-settled
    \* DeliveryFut
    fut,                  \* one send future, its one-shot channel and its polls
    \* do_attach
    hs,                   \* the attach handshake of the two ends of one link
    \* SessionEngine and SessionHandle
    eng,                  \* the engine's position, its three channels, the handle
    \* Receiver
    rcv,                  \* the receiving end of link "a" in the peer's container
    \* LifetimePolicy on the wire
    codec,                \* a policy, its encoding, and what decoding gave
    \* observation of the last handler
    ev,                   \* what the last handler was given and returned
    frames                \* the Transfer frames the session has framed, in order

sessVars == <<local_state, next_outgoing_id, remote_incoming_window,
              next_incoming_id, remote_outgoing_window>>
allocVars == <<local_links, slab_next, link_by_name, link_by_input_handle>>
linkVars == <<link_role, flow_state, notified, unsettled, receiver_settle_mode,
              output_handle, send, next_tag, outcome, presettled>>
\* All but the send future, the attach handshake, the engine and the peer's
\* receiver.
sessionState == <<overflow_checks, panicked, sessVars, allocVars, delivery_tag_by_id,
                  linkVars, ev, frames>>
vars == <<sessionState, fut, hs, eng, rcv, codec>>

\* ------------------------------------------------------------------ Slab
Occupied(n) == [occ |-> TRUE, link |-> n, nxt |-> 0]
Vacant(k) == [occ |-> FALSE, link |-> "", nxt |-> k]

\* Slab::vacant_entry().key()
VacantKey == slab_next

\* Slab::get_mut(key).is_some()
SlabHas(entries, key) == key < Len(entries) /\ entries[key + 1].occ

\* The link whose relay sits at key.
SlabLink(entries, key) == entries[key + 1].link

\* VacantEntry::insert
SlabInsertEntries(key, n) ==
    IF key = Len(local_links)
    THEN Append(local_links, Occupied(n))
    ELSE [local_links EXCEPT ![key + 1] = Occupied(n)]

SlabInsertNext(key) ==
    IF key = Len(local_links) THEN key + 1 ELSE local_links[key + 1].nxt

\* Slab::remove
SlabRemoveEntries(key) == [local_links EXCEPT ![key + 1] = Vacant(slab_next)]

\* ------------------------------------------------------------- link cells
\* LinkFlowStateInner as Builder::attach_inner creates it.
InitialDeliveryCount == 0

NewFlowState_OneCredit ==
    [initial_delivery_count |-> InitialDeliveryCount,
     delivery_count |-> InitialDeliveryCount,
     link_credit |-> 1,
     available |-> 0,
     drain |-> FALSE]

NewFlowState ==
    [initial_delivery_count |-> InitialDeliveryCount,
     delivery_count |-> InitialDeliveryCount,
     link_credit |-> 0,
     available |-> 0,
     drain |-> FALSE]

Idle == [pc |-> "idle", settled |-> FALSE, seen |-> 0]

EmptyMap == [x \in {} |-> None]

\* The two ends of a link: each runs do_attach on its side.
Ends == {"snd", "rcv"}
OtherEnd(p) == IF p = "snd" THEN "rcv" ELSE "snd"
EndRole(p) == IF p = "snd" THEN "Sender" ELSE "Receiver"

\* Neither end has started do_attach.
\* The receiver before its builder's attach.
\* Nothing encoded or decoded yet.
NoCodec == [op |-> "new", policy |-> None, buf |-> None, value |-> None]

NoReceiver ==
    [pc |-> "detached", credit_mode |-> None, flow_state |-> NewFlowState,
     properties |-> None, sent |-> <<>>]

\* The engine before SessionEngine::begin: nothing queued, the handle held.
NoEngine ==
    [pc |-> "begin", cur |-> None, incoming |-> <<>>, control |-> <<>>,
     outgoing_link_frames |-> <<>>, handle |-> "held",
     arrived |-> 0, taken |-> 0, asked |-> {}, handed |-> {}]

NoHandshake ==
    [pc |-> [p \in Ends |-> "start"],
     inbox |-> [p \in Ends |-> <<>>],
     verdict |-> [p \in Ends |-> None]]

\* No send has returned its DeliveryFut yet.
NoFuture ==
    [settlement |-> "None", delivery_tag |-> 0, chan |-> "none", value |-> None,
     awake |-> FALSE, polls |-> 0, result |-> None]

Init ==
    /\ overflow_checks \in BOOLEAN
    /\ panicked = "no"
    /\ local_state = "Unmapped"
    /\ next_outgoing_id = 0
    /\ remote_incoming_window = 0
    /\ next_incoming_id = 0
    /\ remote_outgoing_window = 0
    /\ local_links = <<>>
    /\ slab_next = 0
    /\ link_by_name = EmptyMap
    /\ link_by_input_handle = EmptyMap
    /\ delivery_tag_by_id = EmptyMap
    /\ link_role = [n \in LinkNames |-> "Sender"]
    /\ flow_state = [n \in LinkNames |-> NewFlowState]
    /\ notified = [n \in LinkNames |-> FALSE]
    /\ unsettled = [n \in LinkNames |-> EmptyMap]
    /\ receiver_settle_mode = [n \in LinkNames |-> "First"]
    /\ output_handle = [n \in LinkNames |-> 0]
    /\ send = [n \in LinkNames |-> Idle]
    /\ next_tag = [n \in LinkNames |-> 0]
    /\ outcome = [n \in LinkNames |-> EmptyMap]
    /\ presettled = [n \in LinkNames |-> {}]
    /\ fut = NoFuture
    /\ hs = NoHandshake
    /\ eng = NoEngine
    /\ rcv = NoReceiver
    /\ codec = NoCodec
    /\ ev = [op |-> "new"]
    /\ frames = <<>>

\* A link as the builder creates it, before it is allocated in the session.
FreshLink(n, role, handle) ==
    /\ link_role' = [link_role EXCEPT ![n] = role]
    /\ flow_state' = [flow_state EXCEPT ![n] = NewFlowState]
    /\ notified' = [notified EXCEPT ![n] = FALSE]
    /\ unsettled' = [unsettled EXCEPT ![n] = EmptyMap]
    /\ receiver_settle_mode' = [receiver_settle_mode EXCEPT ![n] = "First"]
    /\ output_handle' = [output_handle EXCEPT ![n] = handle]
    /\ send' = [send EXCEPT ![n] = Idle]
    /\ next_tag' = [next_tag EXCEPT ![n] = 0]
    /\ outcome' = [outcome EXCEPT ![n] = EmptyMap]
    /\ presettled' = [presettled EXCEPT ![n] = {}]

\* ------------------------------------------------- session: begin and end
\* Session::on_incoming_begin
OnIncomingBegin(begin) ==
    /\ panicked = "no"
    /\ IF local_state \in {"Unmapped", "BeginSent"}
       THEN /\ local_state' = (IF local_state = "Unmapped" THEN "BeginReceived" ELSE "Mapped")
            /\ next_incoming_id' = begin.next_outgoing_id
            /\ remote_incoming_window' = begin.incoming_window
            /\ remote_outgoing_window' = begin.outgoing_window
            /\ ev' = [op |-> "on_incoming_begin", res |-> "Ok"]
       ELSE /\ UNCHANGED <<local_state, next_incoming_id, remote_incoming_window,
                           remote_outgoing_window>>
            /\ ev' = [op |-> "on_incoming_begin", res |-> "IllegalState"]
    /\ UNCHANGED <<overflow_checks, codec, rcv, fut, hs, eng, panicked, next_outgoing_id, allocVars,
                   delivery_tag_by_id, linkVars, frames>>

\* Session::send_begin without the match on local_state: every state but
\* BeginReceived is taken as Unmapped.
SendBegin_FromAnyState(written) ==
    /\ panicked = "no"
    /\ IF written
       THEN /\ local_state' = (IF local_state = "BeginReceived" THEN "Mapped"
                               ELSE "BeginSent")
            /\ ev' = [op |-> "send_begin", res |-> "Ok"]
       ELSE /\ UNCHANGED local_state
            /\ ev' = [op |-> "send_begin", res |-> "Io"]
    /\ UNCHANGED <<overflow_checks, codec, rcv, fut, hs, eng, panicked, next_outgoing_id, remote_incoming_window,
                   next_incoming_id, remote_outgoing_window, allocVars,
                   delivery_tag_by_id, linkVars, frames>>

\* Session::send_begin; written: whether the connection writer took the frame.
SendBegin(written) ==
    /\ panicked = "no"
    /\ IF local_state \in {"Unmapped", "BeginReceived"}
       THEN IF written
            THEN /\ local_state' = (IF local_state = "Unmapped" THEN "BeginSent" ELSE "Mapped")
                 /\ ev' = [op |-> "send_begin", res |-> "Ok"]
            ELSE /\ UNCHANGED local_state
                 /\ ev' = [op |-> "send_begin", res |-> "Io"]
       ELSE /\ UNCHANGED local_state
            /\ ev' = [op |-> "send_begin", res |-> "IllegalState"]
    /\ UNCHANGED <<overflow_checks, codec, rcv, fut, hs, eng, panicked, next_outgoing_id, remote_incoming_window,
                   next_incoming_id, remote_outgoing_window, allocVars,
                   delivery_tag_by_id, linkVars, frames>>

\* Session::send_end; the state moves before the frame is handed to the writer.
SendEnd(error, written) ==
    /\ panicked = "no"
    /\ IF local_state \in {"Mapped", "EndReceived"}
       THEN /\ local_state' = (IF local_state = "EndReceived" THEN "Unmapped"
                               ELSE IF error THEN "Discarding" ELSE "EndSent")
            /\ ev' = [op |-> "send_end", res |-> (IF written THEN "Ok" ELSE "Io")]
       ELSE /\ UNCHANGED local_state
            /\ ev' = [op |-> "send_end", res |-> "IllegalState"]
    /\ UNCHANGED <<overflow_checks, codec, rcv, fut, hs, eng, panicked, next_outgoing_id, remote_incoming_window,
                   next_incoming_id, remote_outgoing_window, allocVars,
                   delivery_tag_by_id, linkVars, frames>>

\* Session::on_incoming_end; the End the session owes in reply is a control
\* message to itself (SessionControl::End).
OnIncomingEnd(error) ==
    /\ panicked = "no"
    /\ IF local_state \in {"BeginSent", "BeginReceived", "Mapped"}
       THEN /\ local_state' = "EndReceived"
            /\ ev' = [op |-> "on_incoming_end", res |-> (IF error THEN "Remote" ELSE "Ok")]
       ELSE IF local_state \in {"EndSent", "Discarding"}
       THEN /\ local_state' = "Unmapped"
            /\ ev' = [op |-> "on_incoming_end", res |-> (IF error THEN "Remote" ELSE "Ok")]
       ELSE /\ UNCHANGED local_state
            /\ ev' = [op |-> "on_incoming_end", res |-> "IllegalState"]
    /\ UNCHANGED <<overflow_checks, codec, rcv, fut, hs, eng, panicked, next_outgoing_id, remote_incoming_window,
                   next_incoming_id, remote_outgoing_window, allocVars,
                   delivery_tag_by_id, linkVars, frames>>

\* ------------------------------------------------------ session: handles
\* link_by_name.contains_key(&link_name)
NameTaken_Never(n) == FALSE

NameTaken(n) == n \in DOMAIN link_by_name

\* handle.0 > self.handle_max.0
ExceedsHandleMax_OffByOne(handle) == handle > HandleMax + 1

ExceedsHandleMax(handle) == handle > HandleMax

\* What Session::allocate_link returns for link_name n.
AllocateResult(n) ==
    IF local_state # "Mapped" THEN "IllegalState"
    ELSE IF NameTaken(n) THEN "DuplicatedLinkName"
    ELSE IF ExceedsHandleMax(VacantKey) THEN "HandleMaxReached"
    ELSE "Ok"

\* allocate_link with the name recorded under the slab's next key instead of
\* the key the relay was inserted at.
AllocateEffect_NextKey(n) ==
    /\ local_links' = SlabInsertEntries(VacantKey, n)
    /\ slab_next' = SlabInsertNext(VacantKey)
    /\ link_by_name' = [x \in DOMAIN link_by_name \cup {n} |->
                           IF x = n THEN SlabInsertNext(VacantKey) ELSE link_by_name[x]]

\* The maps after a successful Session::allocate_link of n.
AllocateEffect(n) ==
    /\ local_links' = SlabInsertEntries(VacantKey, n)
    /\ slab_next' = SlabInsertNext(VacantKey)
    /\ link_by_name' = [x \in DOMAIN link_by_name \cup {n} |->
                           IF x = n THEN VacantKey ELSE link_by_name[x]]

\* Session::allocate_link, called by Builder::attach with the relay of a link
\* the builder has just created.
AllocateLink(n, role) ==
    /\ panicked = "no"
    /\ LET res == AllocateResult(n) IN
       /\ ev' = [op |-> "allocate_link", name |-> n, res |-> res,
                 handle |-> VacantKey]
       /\ IF res = "Ok"
          THEN /\ AllocateEffect(n)
               /\ FreshLink(n, role, VacantKey)
          ELSE UNCHANGED <<local_links, slab_next, link_by_name, linkVars>>
    /\ UNCHANGED <<overflow_checks, codec, rcv, fut, hs, eng, panicked, sessVars, link_by_input_handle,
                   delivery_tag_by_id, frames>>

\* Session::allocate_incoming_link
AllocateIncomingLink(n, role, input_handle) ==
    /\ panicked = "no"
    /\ LET res == AllocateResult(n) IN
       /\ ev' = [op |-> "allocate_incoming_link", name |-> n, res |-> res,
                 handle |-> VacantKey]
       /\ IF res = "Ok"
          THEN /\ AllocateEffect(n)
               /\ FreshLink(n, role, VacantKey)
               /\ link_by_input_handle' =
                      [x \in DOMAIN link_by_input_handle \cup {input_handle} |->
                          IF x = input_handle THEN VacantKey
                          ELSE link_by_input_handle[x]]
          ELSE UNCHANGED <<allocVars, linkVars>>
    /\ UNCHANGED <<overflow_checks, codec, rcv, fut, hs, eng, panicked, sessVars, delivery_tag_by_id, frames>>

\* Session::deallocate_link, called when the user-facing link is dropped: the
\* link's cells go with it.
DeallocateLink(n) ==
    /\ panicked = "no"
    /\ IF n \in DOMAIN link_by_name
       THEN LET handle == link_by_name[n] IN
            /\ link_by_name' = [x \in DOMAIN link_by_name \ {n} |-> link_by_name[x]]
            /\ IF SlabHas(local_links, handle)
               THEN /\ local_links' = SlabRemoveEntries(handle)
                    /\ slab_next' = handle
                    /\ UNCHANGED panicked
                    /\ ev' = [op |-> "deallocate_link", name |-> n, res |-> "Ok",
                              handle |-> handle]
               ELSE \* Slab::remove panics on a vacant key
                    /\ UNCHANGED <<local_links, slab_next>>
                    /\ panicked' = "Slab::remove"
                    /\ ev' = [op |-> "deallocate_link", name |-> n, res |-> "panic",
                              handle |-> handle]
            /\ FreshLink(n, "Sender", 0)
       ELSE /\ UNCHANGED <<local_links, slab_next, link_by_name, linkVars, panicked>>
            /\ ev' = [op |-> "deallocate_link", name |-> n, res |-> "Absent",
                      handle |-> 0]
    /\ UNCHANGED <<overflow_checks, codec, rcv, fut, hs, eng, sessVars, link_by_input_handle,
                   delivery_tag_by_id, frames>>

\* Session::on_incoming_attach
OnIncomingAttach(attach) ==
    /\ panicked = "no"
    /\ IF attach.name \in DOMAIN link_by_name
          /\ SlabHas(local_links, link_by_name[attach.name])
       THEN LET out == link_by_name[attach.name]
                n == SlabLink(local_links, out) IN
            /\ receiver_settle_mode' =
                   IF link_role[n] = "Sender"
                   THEN [receiver_settle_mode EXCEPT ![n] = attach.rcv_settle_mode]
                   ELSE receiver_settle_mode
            /\ link_by_input_handle' =
                   [x \in DOMAIN link_by_input_handle \cup {attach.handle} |->
                       IF x = attach.handle THEN out ELSE link_by_input_handle[x]]
            /\ ev' = [op |-> "on_incoming_attach", res |-> "Ok", link |-> n]
       ELSE /\ UNCHANGED <<receiver_settle_mode, link_by_input_handle>>
            /\ ev' = [op |-> "on_incoming_attach", res |-> "UnattachedHandle", link |-> ""]
    /\ UNCHANGED <<overflow_checks, codec, rcv, fut, hs, eng, panicked, sessVars, local_links, slab_next,
                   link_by_name, delivery_tag_by_id, link_role, flow_state, notified,
                   unsettled, output_handle, send, next_tag, outcome, presettled,
                   frames>>

\* ------------------------------------------------------- link flow state
\* Session::initial_outgoing_id, the next_outgoing_id the session is built with.
InitialOutgoingId == 0

\* delivery-count_rcv + link-credit_rcv - delivery-count_snd, as u32.
SenderLinkCredit(dc_rcv, lc_rcv, dc_snd) ==
    WrappingSub(WrappingAdd(dc_rcv, lc_rcv), dc_snd)

SenderLinkCreditOverflows(dc_rcv, lc_rcv, dc_snd) ==
    \/ AddOverflows(dc_rcv, lc_rcv)
    \/ SubOverflows(WrappingAdd(dc_rcv, lc_rcv), dc_snd)

\* LinkFlowStateInner::as_link_flow
AsLinkFlow(st, handle, echo) ==
    [handle |-> handle,
     delivery_count |-> Some(st.delivery_count),
     link_credit |-> Some(st.link_credit),
     available |-> Some(st.available),
     drain |-> st.drain,
     echo |-> echo]

\* LinkFlowState::on_incoming_flow with a Receiver branch that also takes the
\* peer's drain flag.
LinkOnIncomingFlow_ReceiverDrain(st, role, flow, handle) ==
    IF role = "Sender"
    THEN LET dc_rcv == UnwrapOr(flow.delivery_count, st.initial_delivery_count)
             credit == IF IsSome(flow.link_credit)
                       THEN SenderLinkCredit(dc_rcv, Unwrap(flow.link_credit),
                                             st.delivery_count)
                       ELSE st.link_credit
             new == [st EXCEPT !.link_credit = credit, !.drain = flow.drain]
         IN [overflow |-> IsSome(flow.link_credit)
                          /\ SenderLinkCreditOverflows(dc_rcv, Unwrap(flow.link_credit),
                                                       st.delivery_count),
             state |-> new,
             echo |-> IF flow.echo THEN Some(AsLinkFlow(new, handle, FALSE)) ELSE None]
    ELSE LET new == [st EXCEPT
                       !.delivery_count = UnwrapOr(flow.delivery_count, st.delivery_count),
                       !.available = UnwrapOr(flow.available, st.available),
                       !.drain = flow.drain]
         IN [overflow |-> FALSE,
             state |-> new,
             echo |-> IF flow.echo THEN Some(AsLinkFlow(new, handle, FALSE)) ELSE None]

\* LinkFlowState::on_incoming_flow: the new state, the echo, and whether the
\* arithmetic overflowed.
LinkOnIncomingFlow(st, role, flow, handle) ==
    IF role = "Sender"
    THEN LET dc_rcv == UnwrapOr(flow.delivery_count, st.initial_delivery_count)
             credit == IF IsSome(flow.link_credit)
                       THEN SenderLinkCredit(dc_rcv, Unwrap(flow.link_credit),
                                             st.delivery_count)
                       ELSE st.link_credit
             new == [st EXCEPT !.link_credit = credit, !.drain = flow.drain]
         IN [overflow |-> IsSome(flow.link_credit)
                          /\ SenderLinkCreditOverflows(dc_rcv, Unwrap(flow.link_credit),
                                                       st.delivery_count),
             state |-> new,
             echo |-> IF flow.echo THEN Some(AsLinkFlow(new, handle, FALSE)) ELSE None]
    ELSE LET new == [st EXCEPT
                       !.delivery_count = UnwrapOr(flow.delivery_count, st.delivery_count),
                       !.available = UnwrapOr(flow.available, st.available)]
         IN [overflow |-> FALSE,
             state |-> new,
             echo |-> IF flow.echo THEN Some(AsLinkFlow(new, handle, FALSE)) ELSE None]

\* The remote-incoming-window Session::on_incoming_flow computes, as u32.
RemoteIncomingWindow(flow) ==
    WrappingSub(WrappingAdd(UnwrapOr(flow.next_incoming_id, InitialOutgoingId),
                            flow.incoming_window),
                next_outgoing_id)

RemoteIncomingWindowOverflows(flow) ==
    \/ AddOverflows(UnwrapOr(flow.next_incoming_id, InitialOutgoingId),
                    flow.incoming_window)
    \/ SubOverflows(WrappingAdd(UnwrapOr(flow.next_incoming_id, InitialOutgoingId),
                                flow.incoming_window),
                    next_outgoing_id)

\* Producer::produce after the state update: Notify::notify_one wakes the
\* consumer waiting on the notifier, or stores the permit for its next wait.
NotifyOne(n) == TRUE

\* Session::on_incoming_flow.  A Flow with a handle is a LinkFlow and goes to
\* the relay bound to that input handle, through Producer::on_incoming_flow,
\* which notifies the consumer after the update.
OnIncomingFlow(flow) ==
    /\ panicked = "no"
    /\ LET sess_panic == overflow_checks /\ RemoteIncomingWindowOverflows(flow)
           routed == /\ IsSome(flow.handle)
                     /\ Unwrap(flow.handle) \in DOMAIN link_by_input_handle
                     /\ SlabHas(local_links, link_by_input_handle[Unwrap(flow.handle)])
           out == link_by_input_handle[Unwrap(flow.handle)]
           n == SlabLink(local_links, out)
           r == LinkOnIncomingFlow(flow_state[n], link_role[n], flow, out)
           link_panic == ~sess_panic /\ routed /\ overflow_checks /\ r.overflow
           res == IF sess_panic THEN "panic"
                  ELSE IF ~IsSome(flow.handle) THEN "Ok"
                  ELSE IF ~routed THEN "UnattachedHandle"
                  ELSE IF link_panic THEN "panic"
                  ELSE "Ok"
       IN /\ panicked' = IF sess_panic THEN "remote_incoming_window"
                         ELSE IF link_panic THEN "link_credit"
                         ELSE "no"
          /\ IF res = "panic"
             THEN UNCHANGED <<next_incoming_id, remote_outgoing_window,
                              remote_incoming_window, flow_state, notified>>
             ELSE /\ next_incoming_id' = flow.next_outgoing_id
                  /\ remote_outgoing_window' = flow.outgoing_window
                  /\ remote_incoming_window' = RemoteIncomingWindow(flow)
                  /\ IF routed
                     THEN /\ flow_state' = [flow_state EXCEPT ![n] = r.state]
                          /\ notified' = [notified EXCEPT ![n] = @ \/ NotifyOne(n)]
                     ELSE UNCHANGED <<flow_state, notified>>
          /\ ev' = [op |-> "on_incoming_flow", flow |-> flow, res |-> res,
                    link |-> IF routed THEN n ELSE "",
                    echo |-> IF res = "Ok" /\ routed THEN r.echo ELSE None]
    /\ UNCHANGED <<overflow_checks, codec, rcv, fut, hs, eng, local_state, next_outgoing_id, allocVars,
                   delivery_tag_by_id, link_role, unsettled, receiver_settle_mode,
                   output_handle, send, next_tag, outcome, presettled, frames>>

\* ---------------------------------------------------- outgoing transfers
MapPut(f, k, v) == [x \in DOMAIN f \cup {k} |-> IF x = k THEN v ELSE f[x]]
MapRemove(f, k) == [x \in DOMAIN f \ {k} |-> f[x]]

\* The delivery_id Session::on_outgoing_transfer gives a Transfer.
AssignedDeliveryId_Always(transfer) == Some(next_outgoing_id)

AssignedDeliveryId(transfer) ==
    IF IsSome(transfer.delivery_tag) THEN Some(next_outgoing_id) ELSE None

\* Session::on_outgoing_transfer, the session's part of every emitted Transfer.
FrameTransfer(transfer) ==
    /\ Len(frames) < MaxTransfers
    /\ LET panic == overflow_checks /\ (\/ AddOverflows(next_outgoing_id, 1)
                                        \/ SubOverflows(remote_incoming_window, 1))
           id == AssignedDeliveryId(transfer)
       IN IF panic
          THEN /\ panicked' = "on_outgoing_transfer"
               /\ UNCHANGED <<delivery_tag_by_id, next_outgoing_id,
                              remote_incoming_window, frames>>
               /\ ev' = [op |-> "on_outgoing_transfer", transfer |-> transfer,
                         res |-> "panic", window |-> remote_incoming_window]
          ELSE /\ UNCHANGED panicked
               /\ delivery_tag_by_id' =
                      IF IsSome(transfer.delivery_tag)
                      THEN MapPut(delivery_tag_by_id, Unwrap(id),
                                  <<transfer.handle, Unwrap(transfer.delivery_tag)>>)
                      ELSE delivery_tag_by_id
               /\ next_outgoing_id' = WrappingAdd(next_outgoing_id, 1)
               /\ remote_incoming_window' = WrappingSub(remote_incoming_window, 1)
               /\ frames' = Append(frames, [handle |-> transfer.handle,
                                            delivery_tag |-> transfer.delivery_tag,
                                            delivery_id |-> id])
               /\ ev' = [op |-> "on_outgoing_transfer", transfer |-> transfer,
                         res |-> "Ok", window |-> remote_incoming_window]
    /\ UNCHANGED <<overflow_checks, codec, rcv, fut, hs, eng, local_state, next_incoming_id,
                   remote_outgoing_window, allocVars>>

\* Session::on_outgoing_transfer on a Transfer of any link.
OnOutgoingTransfer(transfer) ==
    /\ panicked = "no"
    /\ FrameTransfer(transfer)
    /\ UNCHANGED linkVars

\* ------------------------------------------------------------- send path
\* consume_link_credit: state.link_credit < count is the failure.
HasCredit_Unchecked(st, count) == TRUE

HasCredit(st, count) == ~(st.link_credit < count)

ConsumeLinkCredit_Free(st, count) ==
    [st EXCEPT !.delivery_count = WrappingAdd(st.delivery_count, count)]

\* consume_link_credit without `state.delivery_count += count`.
ConsumeLinkCredit_CreditOnly(st, count) ==
    [st EXCEPT !.link_credit = WrappingSub(st.link_credit, count)]

ConsumeLinkCredit(st, count) ==
    [st EXCEPT !.delivery_count = WrappingAdd(st.delivery_count, count),
               !.link_credit = WrappingSub(st.link_credit, count)]

\* Whether link n has a user-facing Sender that can send.
CanSend(n) == n \in DOMAIN link_by_name /\ link_role[n] = "Sender"

\* Consumer::consume(1), one pass of its loop: take the credit, or leave the
\* failed check to wait for the notifier.
TryConsume(n, settled) ==
    IF HasCredit(flow_state[n], 1)
    THEN /\ flow_state' = [flow_state EXCEPT ![n] = ConsumeLinkCredit(flow_state[n], 1)]
         /\ send' = [send EXCEPT ![n] = [pc |-> "acquired", settled |-> settled,
                                         seen |-> flow_state[n].link_credit]]
    ELSE /\ UNCHANGED flow_state
         /\ send' = [send EXCEPT ![n] = [pc |-> "checked", settled |-> settled,
                                         seen |-> 0]]

\* Sender::send is called and reaches Consumer::consume.
SendCall(n, settled) ==
    /\ panicked = "no"
    /\ CanSend(n)
    /\ send[n].pc = "idle"
    /\ next_tag[n] < MaxTag
    /\ TryConsume(n, settled)
    /\ ev' = [op |-> "send", link |-> n]
    /\ UNCHANGED <<overflow_checks, codec, rcv, fut, hs, eng, panicked, sessVars, allocVars, delivery_tag_by_id,
                   link_role, notified, unsettled, receiver_settle_mode,
                   output_handle, next_tag, outcome, presettled, frames>>

\* A wait that only sees notifications made after it began.
AwaitNotified_FromNow(n) ==
    /\ panicked = "no"
    /\ CanSend(n)
    /\ send[n].pc = "checked"
    /\ send' = [send EXCEPT ![n] = [@ EXCEPT !.pc = "waiting"]]
    /\ notified' = [notified EXCEPT ![n] = FALSE]
    /\ ev' = [op |-> "await", link |-> n]
    /\ UNCHANGED <<overflow_checks, codec, rcv, fut, hs, eng, panicked, sessVars, allocVars, delivery_tag_by_id,
                   link_role, flow_state, unsettled, receiver_settle_mode,
                   output_handle, next_tag, outcome, presettled, frames>>

\* After the failed check the consumer reaches self.notifier.notified().await
\* and waits; a permit stored meanwhile is kept for it.
AwaitNotified(n) ==
    /\ panicked = "no"
    /\ CanSend(n)
    /\ send[n].pc = "checked"
    /\ send' = [send EXCEPT ![n] = [@ EXCEPT !.pc = "waiting"]]
    /\ ev' = [op |-> "await", link |-> n]
    /\ UNCHANGED <<overflow_checks, codec, rcv, fut, hs, eng, panicked, sessVars, allocVars, delivery_tag_by_id,
                   link_role, flow_state, notified, unsettled, receiver_settle_mode,
                   output_handle, next_tag, outcome, presettled, frames>>

\* self.notifier.notified().await returns: the permit is taken and the loop
\* of Consumer::consume tries again.
ConsumeWake(n) ==
    /\ panicked = "no"
    /\ CanSend(n)
    /\ send[n].pc = "waiting"
    /\ notified[n]
    /\ notified' = [notified EXCEPT ![n] = FALSE]
    /\ TryConsume(n, send[n].settled)
    /\ ev' = [op |-> "notified", link |-> n]
    /\ UNCHANGED <<overflow_checks, codec, rcv, fut, hs, eng, panicked, sessVars, allocVars, delivery_tag_by_id,
                   link_role, unsettled, receiver_settle_mode,
                   output_handle, next_tag, outcome, presettled, frames>>

\* The first Transfer of the delivery: a fresh tag, the UnsettledMessage
\* unless pre-settled, then the frame through the session.
EmitTransfer(n, more) ==
    /\ panicked = "no"
    /\ CanSend(n)
    /\ send[n].pc = "acquired"
    /\ LET tag == next_tag[n] IN
       /\ FrameTransfer([handle |-> output_handle[n], delivery_tag |-> Some(tag)])
       /\ next_tag' = [next_tag EXCEPT ![n] = tag + 1]
       /\ IF send[n].settled
          THEN /\ presettled' = [presettled EXCEPT ![n] = @ \cup {tag}]
               /\ UNCHANGED <<unsettled, outcome>>
          ELSE /\ unsettled' = [unsettled EXCEPT ![n] = MapPut(@, tag, None)]
               /\ outcome' = [outcome EXCEPT ![n] = MapPut(@, tag, None)]
               /\ UNCHANGED presettled
    /\ send' = [send EXCEPT ![n] = IF more THEN [@ EXCEPT !.pc = "more"]
                                   ELSE Idle]
    /\ UNCHANGED <<link_role, flow_state, notified, receiver_settle_mode,
                   output_handle>>

\* A further Transfer of the same delivery: no delivery-tag.
EmitContinuation(n, more) ==
    /\ panicked = "no"
    /\ CanSend(n)
    /\ send[n].pc = "more"
    /\ FrameTransfer([handle |-> output_handle[n], delivery_tag |-> None])
    /\ send' = [send EXCEPT ![n] = IF more THEN @ ELSE Idle]
    /\ UNCHANGED <<link_role, flow_state, notified, unsettled, receiver_settle_mode,
                   output_handle, next_tag, outcome, presettled>>

\* ---------------------------------------------------- incoming transfers
\* What the relay of a receiver link answers to a Transfer: the delivery-id and
\* delivery-tag of a delivery its unsettled map has to keep, which is one the
\* sender has not settled.
LinkOnIncomingTransfer(transfer) ==
    IF transfer.settled THEN None
    ELSE Some(<<transfer.delivery_id, transfer.delivery_tag>>)

\* Session::on_incoming_transfer
OnIncomingTransfer(transfer) ==
    /\ panicked = "no"
    /\ LET panic == overflow_checks /\ (\/ AddOverflows(next_incoming_id, 1)
                                        \/ SubOverflows(remote_outgoing_window, 1))
           routed == /\ transfer.handle \in DOMAIN link_by_input_handle
                     /\ SlabHas(local_links, link_by_input_handle[transfer.handle])
           out == link_by_input_handle[transfer.handle]
           n == SlabLink(local_links, out)
           id_and_tag == LinkOnIncomingTransfer(transfer)
       IN IF panic
          THEN /\ panicked' = "on_incoming_transfer"
               /\ UNCHANGED <<next_incoming_id, remote_outgoing_window,
                              delivery_tag_by_id, unsettled>>
               /\ ev' = [op |-> "on_incoming_transfer", res |-> "panic", link |-> ""]
          ELSE /\ UNCHANGED panicked
               /\ next_incoming_id' = WrappingAdd(next_incoming_id, 1)
               /\ remote_outgoing_window' = WrappingSub(remote_outgoing_window, 1)
               /\ IF routed /\ IsSome(id_and_tag)
                  THEN /\ delivery_tag_by_id' =
                              MapPut(delivery_tag_by_id, Unwrap(id_and_tag)[1],
                                     <<out, Unwrap(id_and_tag)[2]>>)
                       /\ unsettled' = [unsettled EXCEPT ![n] =
                                           MapPut(@, Unwrap(id_and_tag)[2], None)]
                  ELSE UNCHANGED <<delivery_tag_by_id, unsettled>>
               /\ ev' = [op |-> "on_incoming_transfer",
                         res |-> IF routed THEN "Ok" ELSE "UnattachedHandle",
                         link |-> IF routed THEN n ELSE ""]
    /\ UNCHANGED <<overflow_checks, codec, rcv, fut, hs, eng, local_state, next_outgoing_id,
                   remote_incoming_window, allocVars, link_role, flow_state,
                   notified, receiver_settle_mode, output_handle, send, next_tag,
                   outcome, presettled, frames>>

\* ------------------------------------------------------------ dispositions
\* guard.remove(&delivery_tag) on the link's unsettled map.
RemoveUnsettled_Kept(uns, n, tag) == uns

RemoveUnsettled(uns, n, tag) == [uns EXCEPT ![n] = MapRemove(@, tag)]

\* LinkHandle::on_incoming_disposition for one delivery-tag of link n: the
\* maps afterwards, the echo it asks for, and whether it panicked (todo!()).
LinkOnIncomingDisposition(n, role, is_settled, state, tag, uns, outc) ==
    IF role = "Sender"
    THEN [panic |-> TRUE, echo |-> FALSE, uns |-> uns, outc |-> outc]
    ELSE IF is_settled
    THEN [panic |-> FALSE,
          echo |-> receiver_settle_mode[n] = "Second",
          uns |-> IF tag \in DOMAIN uns[n]
                  THEN RemoveUnsettled(uns, n, tag) ELSE uns,
          outc |-> IF tag \in DOMAIN uns[n]
                   THEN [outc EXCEPT ![n] = MapPut(@, tag, Some(state))]
                   ELSE outc]
    ELSE [panic |-> FALSE,
          echo |-> FALSE,
          uns |-> IF tag \in DOMAIN uns[n] /\ IsSome(state)
                  THEN [uns EXCEPT ![n] = MapPut(@, tag, state)] ELSE uns,
          outc |-> outc]

\* The last delivery-id the loop of Session::on_incoming_disposition visits.
SettledLoopEnd(first, last) == last
UnsettledLoopEnd(first, last) == last - 1

FlipRole(role) == IF role = "Sender" THEN "Receiver" ELSE "Sender"

DispositionStart(d) ==
    [ledger |-> delivery_tag_by_id, uns |-> unsettled, outc |-> outcome,
     dispatched |-> <<>>, panic |-> FALSE,
     prev |-> FALSE, first_echo |-> d.first, last_echo |-> d.first,
     echoes |-> <<>>]

\* One pass of the loop's body for delivery_id.
DispositionVisit(d, delivery_id, acc) ==
    IF delivery_id \notin DOMAIN acc.ledger THEN acc
    ELSE LET handle == acc.ledger[delivery_id][1]
             tag == acc.ledger[delivery_id][2]
             ledger == IF d.settled THEN MapRemove(acc.ledger, delivery_id)
                       ELSE acc.ledger
         IN IF ~SlabHas(local_links, handle) THEN [acc EXCEPT !.ledger = ledger]
            ELSE LET n == SlabLink(local_links, handle)
                     r == LinkOnIncomingDisposition(n, d.role, d.settled, d.state,
                                                    tag, acc.uns, acc.outc)
                     hit == [id |-> delivery_id, link |-> n, tag |-> tag]
                 IN IF r.panic
                    THEN [acc EXCEPT !.panic = TRUE, !.ledger = ledger]
                    ELSE IF d.settled
                    THEN [acc EXCEPT !.ledger = ledger, !.uns = r.uns,
                                     !.outc = r.outc,
                                     !.dispatched = Append(@, hit)]
                    ELSE [acc EXCEPT
                            !.uns = r.uns, !.outc = r.outc,
                            !.dispatched = Append(@, hit),
                            !.first_echo = IF r.echo /\ ~acc.prev THEN delivery_id ELSE @,
                            !.last_echo = IF r.echo THEN delivery_id ELSE @,
                            !.echoes =
                                IF ~r.echo /\ acc.prev
                                THEN Append(@, [role |-> FlipRole(d.role),
                                                first |-> acc.first_echo,
                                                last |-> IF acc.last_echo # acc.first_echo
                                                         THEN Some(acc.last_echo)
                                                         ELSE None,
                                                settled |-> TRUE,
                                                state |-> None])
                                ELSE @,
                            !.prev = r.echo]

RECURSIVE DispositionLoop(_, _, _, _)
DispositionLoop(d, delivery_id, end, acc) ==
    IF delivery_id > end \/ acc.panic THEN acc
    ELSE DispositionLoop(d, delivery_id + 1, end,
                         DispositionVisit(d, delivery_id, acc))

\* Session::on_incoming_disposition
OnIncomingDisposition(d) ==
    /\ panicked = "no"
    /\ LET last == UnwrapOr(d.last, d.first)
           end == IF d.settled THEN SettledLoopEnd(d.first, last)
                  ELSE UnsettledLoopEnd(d.first, last)
       IN \E acc \in {DispositionLoop(d, d.first, end, DispositionStart(d))} :
          /\ panicked' = IF acc.panic THEN "todo" ELSE "no"
          /\ delivery_tag_by_id' = acc.ledger
          /\ unsettled' = acc.uns
          /\ outcome' = acc.outc
          /\ ev' = [op |-> "on_incoming_disposition",
                    res |-> IF acc.panic THEN "panic" ELSE "Ok",
                    dispatched |-> acc.dispatched, echoes |-> acc.echoes]
    /\ UNCHANGED <<overflow_checks, codec, rcv, fut, hs, eng, sessVars, allocVars, link_role, flow_state,
                   notified, receiver_settle_mode, output_handle, send, next_tag,
                   presettled, frames>>

\* Session::on_outgoing_disposition: the Disposition of a local link is framed
\* and nothing of the session changes.
OnOutgoingDisposition(d) ==
    /\ panicked = "no"
    /\ ev' = [op |-> "on_outgoing_disposition", disposition |-> d]
    /\ UNCHANGED <<overflow_checks, codec, rcv, fut, hs, eng, panicked, sessVars, allocVars,
                   delivery_tag_by_id, linkVars, frames>>

\* ------------------------------------------------------------ DeliveryFut
\* SendResult: Ok(Outcome) with the outcome's kind and content, or Err.
OkOutcome(kind, payload) == [ok |-> TRUE, kind |-> kind, payload |-> payload]
SendErr(kind) == [ok |-> FALSE, kind |-> kind, payload |-> 0]

\* impl FromOneshotRecvError for SendResult
FromOneshotRecvError_Accepted == OkOutcome("Accepted", 0)

FromOneshotRecvError == SendErr("IllegalSessionState")

\* impl FromPreSettled for SendResult
FromSettled_Illegal == SendErr("IllegalDeliveryState")

FromSettled == OkOutcome("Accepted", 0)

\* impl FromDeliveryState for SendResult
FromNone == SendErr("IllegalDeliveryState")

FromDeliveryState_ReceivedOk(state) == OkOutcome(state.kind, state.payload)

FromDeliveryState(state) ==
    CASE state.kind = "Accepted" -> OkOutcome("Accepted", state.payload)
      [] state.kind = "Rejected" -> OkOutcome("Rejected", state.payload)
      [] state.kind = "Released" -> OkOutcome("Released", state.payload)
      [] state.kind = "Modified" -> OkOutcome("Modified", state.payload)
      [] state.kind = "Received" -> SendErr("NonTerminalDeliveryState")

\* DeliveryFut::poll: None is Poll::Pending, Some(r) is Poll::Ready(r).
Poll(f) ==
    IF f.settlement = "Settled" THEN Some(FromSettled)
    ELSE IF f.chan = "empty" THEN None
    ELSE IF f.chan = "sent"
    THEN (IF IsSome(f.value) THEN Some(FromDeliveryState(Unwrap(f.value)))
          ELSE Some(FromNone))
    ELSE Some(FromOneshotRecvError)

\* The send path hands the caller the DeliveryFut of a delivery: Settled for a
\* pre-settled one, otherwise Unsettled with the receiving end of the one-shot
\* whose sending end is in the UnsettledMessage.  The caller awaits it.
NewDeliveryFut(tag, settled) ==
    /\ fut.settlement = "None"
    /\ fut' = [settlement |-> IF settled THEN "Settled" ELSE "Unsettled",
               delivery_tag |-> tag,
               chan |-> IF settled THEN "none" ELSE "empty",
               value |-> None, awake |-> TRUE, polls |-> 0, result |-> None]
    /\ UNCHANGED <<sessionState, hs, eng, rcv, codec>>

\* UnsettledMessage::settle_with_state: the state goes into the one-shot,
\* which wakes the task awaiting the future.
SettleWithState(state) ==
    /\ fut.settlement = "Unsettled"
    /\ fut.chan = "empty"
    /\ fut' = [fut EXCEPT !.chan = "sent", !.value = state, !.awake = TRUE]
    /\ UNCHANGED <<sessionState, hs, eng, rcv, codec>>

\* The UnsettledMessage is dropped with its one-shot sender unused: the
\* channel closes, which wakes the task awaiting the future.
DropUnsettled ==
    /\ fut.settlement = "Unsettled"
    /\ fut.chan = "empty"
    /\ fut' = [fut EXCEPT !.chan = "closed", !.awake = TRUE]
    /\ UNCHANGED <<sessionState, hs, eng, rcv, codec>>

\* The executor polls the awaiting task when it is first run and after each
\* wake-up, until the future is ready.
PollFut ==
    /\ fut.settlement # "None"
    /\ fut.awake
    /\ fut.result = None
    /\ fut' = [fut EXCEPT !.awake = FALSE, !.polls = @ + 1, !.result = Poll(fut)]
    /\ UNCHANGED <<sessionState, hs, eng, rcv, codec>>

\* ------------------------------------------------------ attach handshake
\* Result<(), definitions::Error> of the target verification.
VerifyOk == [ok |-> TRUE, condition |-> ""]
VerifyErr(condition) == [ok |-> FALSE, condition |-> condition]

\* VerifyTargetArchetype for Target: verify_as_sender on the target `other`
\* of the receiving peer's Attach.
VerifyAsSender_AddressFree(other) ==
    IF ~other.dynamic /\ IsSome(other.dynamic_node_properties)
    THEN VerifyErr("NotAllowed")
    ELSE VerifyOk

VerifyAsSender(other) ==
    IF other.dynamic /\ ~IsSome(other.address) THEN VerifyErr("NotAllowed")
    ELSE IF ~other.dynamic /\ IsSome(other.dynamic_node_properties)
    THEN VerifyErr("NotAllowed")
    ELSE VerifyOk

\* verify_as_receiver on the target `other` of the sending peer's Attach.
VerifyAsReceiver(other) ==
    IF other.dynamic /\ IsSome(other.address) THEN VerifyErr("NotAllowed")
    ELSE IF ~other.dynamic /\ IsSome(other.dynamic_node_properties)
    THEN VerifyErr("NotAllowed")
    ELSE VerifyOk

\* Link::on_incoming_attach of the end with this role: the verification of
\* the peer's target.
LinkOnIncomingAttach(role, target) ==
    IF role = "Sender" THEN VerifyAsSender(target) ELSE VerifyAsReceiver(target)

AttachFrame(target) == [kind |-> "Attach", target |-> target]
DetachFrame == [kind |-> "Detach", target |-> None]

\* The frame goes to the other end's reader.
SendToPeer(p, frame) == [hs.inbox EXCEPT ![OtherEnd(p)] = Append(@, frame)]

\* do_attach, first step: send the Attach, then wait for the peer's.
SendAttach(p, target) ==
    /\ hs.pc[p] = "start"
    /\ hs' = [hs EXCEPT !.pc[p] = "await_attach",
                        !.inbox = SendToPeer(p, AttachFrame(target))]
    /\ UNCHANGED <<sessionState, fut, eng, rcv, codec>>

\* do_attach, the frame it waited for has come: anything but an Attach is an
\* error; an Attach with a target goes to Link::on_incoming_attach, whose
\* failure is todo!(); an Attach without target makes the end wait for the
\* peer's Detach in expect_detach_then_detach.
OnAttachReply(p) ==
    /\ hs.pc[p] = "await_attach"
    /\ hs.inbox[p] # <<>>
    /\ LET frame == Head(hs.inbox[p])
           rest == [hs.inbox EXCEPT ![p] = Tail(@)]
       IN IF frame.kind # "Attach"
          THEN hs' = [hs EXCEPT !.pc[p] = "IllegalState", !.inbox = rest]
          ELSE IF IsSome(frame.target)
          THEN LET v == LinkOnIncomingAttach(EndRole(p), Unwrap(frame.target))
               IN hs' = [hs EXCEPT !.pc[p] = IF v.ok THEN "attached" ELSE "todo",
                                   !.inbox = rest,
                                   !.verdict[p] = Some([target |-> Unwrap(frame.target),
                                                        result |-> v])]
          ELSE hs' = [hs EXCEPT !.pc[p] = "await_detach", !.inbox = rest]
    /\ UNCHANGED <<sessionState, fut, eng, rcv, codec>>

\* expect_detach_then_detach, the frame it waited for has come: a Detach is
\* answered with the end's own Detach, anything else is an error.
OnDetachReply(p) ==
    /\ hs.pc[p] = "await_detach"
    /\ hs.inbox[p] # <<>>
    /\ LET frame == Head(hs.inbox[p])
           rest == [hs.inbox EXCEPT ![p] = Tail(@)]
       IN IF frame.kind # "Detach"
          THEN hs' = [hs EXCEPT !.pc[p] = "IllegalState", !.inbox = rest]
          ELSE hs' = [hs EXCEPT !.pc[p] = "detached",
                               !.inbox = [rest EXCEPT ![OtherEnd(p)] =
                                             Append(@, DetachFrame)]]
    /\ UNCHANGED <<sessionState, fut, eng, rcv, codec>>

\* The application of an attached end detaches its link.
UserDetach(p) ==
    /\ hs.pc[p] = "attached"
    /\ hs' = [hs EXCEPT !.pc[p] = "detach_sent",
                        !.inbox = SendToPeer(p, DetachFrame)]
    /\ UNCHANGED <<sessionState, fut, eng, rcv, codec>>

\* ------------------------------------------------------ the session engine
\* One event of the engine: the channel it came from and what it carries.
Event(src, kind, error, seq) == [src |-> src, kind |-> kind, error |-> error, seq |-> seq]

\* mpsc::Receiver::recv on a non-empty channel: the oldest item.
Recv(queue) == [item |-> Head(queue), rest |-> Tail(queue)]

\* A bounded channel takes another item.
HasRoom(queue) == Len(queue) < ControlCap

\* The engine is spawned once begin has mapped the session.
Spawn ==
    /\ panicked = "no"
    /\ eng.pc = "begin"
    /\ local_state = "Mapped"
    /\ eng' = [eng EXCEPT !.pc = "select"]
    /\ UNCHANGED <<sessionState, fut, hs, rcv, codec>>

EngineRuns == panicked = "no" /\ eng.pc \in {"select", "handle", "returned"}

\* The branch of select! whose channel has an item takes it.
Select(src) ==
    /\ panicked = "no"
    /\ eng.pc = "select"
    /\ eng[src] # <<>>
    /\ \E r \in {Recv(eng[src])} :
          eng' = [eng EXCEPT ![src] = r.rest, !.cur = Some(r.item), !.pc = "handle",
                             !.taken = IF src = "incoming" THEN r.item.seq ELSE @]
    /\ ev' = [op |-> "select"]
    /\ UNCHANGED <<overflow_checks, codec, rcv, fut, hs, panicked, sessVars, allocVars,
                   delivery_tag_by_id, linkVars, frames>>

\* The event select! has taken and no handler has touched yet.
Taken(src, kind) ==
    /\ eng.pc = "handle"
    /\ ev.op = "select"
    /\ Unwrap(eng.cur).src = src
    /\ Unwrap(eng.cur).kind = kind

\* on_control: CreateLink and DropLink are todo!().
OnControlTodo ==
    /\ panicked = "no"
    /\ Taken("control", "CreateLink")
    /\ panicked' = "todo"
    /\ ev' = [op |-> "on_control", res |-> "panic"]
    /\ UNCHANGED <<overflow_checks, codec, rcv, fut, hs, eng, sessVars, allocVars,
                   delivery_tag_by_id, linkVars, frames>>

\* on_outgoing_link_frames is todo!().
OnOutgoingLinkFrames ==
    /\ panicked = "no"
    /\ Taken("outgoing_link_frames", "Transfer")
    /\ panicked' = "todo"
    /\ ev' = [op |-> "on_outgoing_link_frames", res |-> "panic"]
    /\ UNCHANGED <<overflow_checks, codec, rcv, fut, hs, eng, sessVars, allocVars,
                   delivery_tag_by_id, linkVars, frames>>

\* on_incoming_end has moved a mapped session to EndReceived and now sends
\* End(None) to the session's own control channel.
OwesEnd ==
    /\ eng.pc = "handle"
    /\ ev.op = "on_incoming_end"
    /\ ev.res # "IllegalState"
    /\ local_state = "EndReceived"

\* The send of on_incoming_end completes when the control channel has room;
\* the engine is the channel's only receiver, so a full channel stays full.
ControlSendEnd ==
    /\ panicked = "no"
    /\ OwesEnd
    /\ HasRoom(eng.control)
    /\ eng' = [eng EXCEPT !.control = Append(@, Event("control", "End", FALSE, 0)),
                          !.pc = "returned"]
    /\ UNCHANGED <<sessionState, fut, hs, rcv, codec>>

\* The handler has returned: an Err is todo!(), Unmapped stops the loop,
\* anything else goes round.
EventLoopResult ==
    /\ panicked = "no"
    /\ \/ eng.pc = "returned"
       \/ eng.pc = "handle" /\ ev.op # "select" /\ ~OwesEnd
    /\ IF ev.res # "Ok"
       THEN /\ panicked' = "todo"
            /\ UNCHANGED eng
       ELSE /\ UNCHANGED panicked
            /\ eng' = [eng EXCEPT !.cur = None,
                                  !.pc = IF local_state = "Unmapped" THEN "stopped"
                                         ELSE "select"]
    /\ UNCHANGED <<overflow_checks, codec, rcv, fut, hs, sessVars, allocVars,
                   delivery_tag_by_id, linkVars, ev, frames>>

\* The connection hands the session a frame of its channel.
Arrives(kind, error) ==
    /\ EngineRuns
    /\ eng.arrived < MaxArrivals
    /\ eng' = [eng EXCEPT !.arrived = @ + 1,
                          !.incoming = Append(@, Event("incoming", kind, error, eng.arrived + 1))]
    /\ UNCHANGED <<sessionState, fut, hs, rcv, codec>>

\* SessionHandle::end and end_with_error.
HandleEnd(error) ==
    /\ EngineRuns
    /\ eng.handle = "held"
    /\ HasRoom(eng.control)
    /\ eng' = [eng EXCEPT !.control = Append(@, Event("control", "End", error, 0)),
                          !.handle = "ended"]
    /\ UNCHANGED <<sessionState, fut, hs, rcv, codec>>

\* Drop for SessionHandle: try_send gives up when the channel is full.
DropHandle ==
    /\ EngineRuns
    /\ eng.handle = "held"
    /\ eng' = [eng EXCEPT !.control = IF HasRoom(@)
                                      THEN Append(@, Event("control", "End", FALSE, 0))
                                      ELSE @,
                          !.handle = "dropped"]
    /\ UNCHANGED <<sessionState, fut, hs, rcv, codec>>

\* allocate_link: a link being attached asks the engine for a handle.
AllocateLinkCall(n) ==
    /\ EngineRuns
    /\ n \notin eng.asked
    /\ HasRoom(eng.control)
    /\ eng' = [eng EXCEPT !.control = Append(@, Event("control", "CreateLink", FALSE, 0)),
                          !.asked = @ \cup {n}]
    /\ UNCHANGED <<sessionState, fut, hs, rcv, codec>>

\* A link hands a Transfer to the session through the handle's outgoing sender.
LinkHandsFrame(h) ==
    /\ EngineRuns
    /\ h \notin eng.handed
    /\ eng' = [eng EXCEPT !.outgoing_link_frames =
                              Append(@, Event("outgoing_link_frames", "Transfer", FALSE, h)),
                          !.handed = @ \cup {h}]
    /\ UNCHANGED <<sessionState, fut, hs, rcv, codec>>

\* ------------------------------------------------------- lifetime policies
\* #[amqp_contract(name = .., code = .., encoding = "list")] of the four
\* structs; enum LifetimePolicy has one variant per struct, of the same name.
Contract ==
    [DeleteOnClose |-> [name |-> "amqp:delete-on-close:list", code |-> 43],
     DeleteOnNoLinks |-> [name |-> "amqp:delete-on-no-links:list", code |-> 44],
     DeleteOnNoMessages |-> [name |-> "amqp:delete-on-no-messages:list", code |-> 45],
     DeleteOnNoLinksOrMessages |->
         [name |-> "amqp:delete-on-no-links-or-messages:list", code |-> 46]]

\* A descriptor on the wire is a ulong code or a symbol.
Ulong(code) == [ulong |-> TRUE, code |-> code, name |-> ""]
Symbol(name) == [ulong |-> FALSE, code |-> 0, name |-> name]

\* A described list on the wire: its descriptor and the fields of the list
\* (the four structs have none).
Described(descriptor) == [descriptor |-> descriptor, list |-> <<>>]

\* The encodings the derived SerializeComposite of a struct can produce: the
\* contract declares a code and a name, the descriptor is one of the two.
StructEncodings(variant) ==
    {Described(Ulong(Contract[variant].code)),
     Described(Symbol(Contract[variant].name))}

\* LifetimePolicy::serialize: each arm is value.serialize(serializer) of the
\* struct the variant wraps.
Serialize(variant) ==
    CASE variant = "DeleteOnClose" -> StructEncodings("DeleteOnClose")
      [] variant = "DeleteOnNoLinks" -> StructEncodings("DeleteOnNoLinks")
      [] variant = "DeleteOnNoMessages" -> StructEncodings("DeleteOnNoMessages")
      [] variant = "DeleteOnNoLinksOrMessages" ->
            StructEncodings("DeleteOnNoLinksOrMessages")

\* FieldVisitor::visit_u64 with 0x2c and 0x2d exchanged.
VisitU64_Exchanged(v) ==
    CASE v = 43 -> [ok |-> TRUE, val |-> "DeleteOnClose"]
      [] v = 44 -> [ok |-> TRUE, val |-> "DeleteOnNoMessages"]
      [] v = 45 -> [ok |-> TRUE, val |-> "DeleteOnNoLinks"]
      [] v = 46 -> [ok |-> TRUE, val |-> "DeleteOnNoLinksOrMessages"]
      [] OTHER -> [ok |-> FALSE, val |-> "Wrong code value for descriptor"]

\* FieldVisitor::visit_u64
VisitU64(v) ==
    CASE v = 43 -> [ok |-> TRUE, val |-> "DeleteOnClose"]
      [] v = 44 -> [ok |-> TRUE, val |-> "DeleteOnNoLinks"]
      [] v = 45 -> [ok |-> TRUE, val |-> "DeleteOnNoMessages"]
      [] v = 46 -> [ok |-> TRUE, val |-> "DeleteOnNoLinksOrMessages"]
      [] OTHER -> [ok |-> FALSE, val |-> "Wrong code value for descriptor"]

\* FieldVisitor::visit_str
VisitStr(v) ==
    CASE v = "amqp:delete-on-close:list" -> [ok |-> TRUE, val |-> "DeleteOnClose"]
      [] v = "amqp:delete-on-no-links:list" -> [ok |-> TRUE, val |-> "DeleteOnNoLinks"]
      [] v = "amqp:delete-on-no-messages:list" ->
            [ok |-> TRUE, val |-> "DeleteOnNoMessages"]
      [] v = "amqp:delete-on-no-links-or-messages:list" ->
            [ok |-> TRUE, val |-> "DeleteOnNoLinksOrMessages"]
      [] OTHER -> [ok |-> FALSE, val |-> "Wrong symbol value for descriptor"]

\* LifetimePolicy::deserialize: deserialize_enum gives Visitor::visit_enum
\* the descriptor as the variant's identifier (a Field, by visit_u64 or
\* visit_str) and the described list as the variant's content; an error of
\* data.variant() is returned by `?`.
Deserialize(buf) ==
    LET field == IF buf.descriptor.ulong THEN VisitU64(buf.descriptor.code)
                                         ELSE VisitStr(buf.descriptor.name)
    IN  IF ~field.ok THEN field
        ELSE CASE field.val = "DeleteOnClose" -> [ok |-> TRUE, val |-> "DeleteOnClose"]
               [] field.val = "DeleteOnNoLinks" -> [ok |-> TRUE, val |-> "DeleteOnNoLinks"]
               [] field.val = "DeleteOnNoMessages" ->
                     [ok |-> TRUE, val |-> "DeleteOnNoMessages"]
               [] field.val = "DeleteOnNoLinksOrMessages" ->
                     [ok |-> TRUE, val |-> "DeleteOnNoLinksOrMessages"]

\* Descriptors a buffer from the peer can carry: every code up to MaxCode, the
\* four names, and symbols that are not lifetime policies.
Descriptors ==
    {Ulong(c) : c \in 0..MaxCode}
        \cup {Symbol(Contract[v].name) : v \in DOMAIN Contract}
        \cup {Symbol(n) : n \in {"amqp:delete-on-close", "amqp:accepted:list", ""}}

\* to_vec(&policy)
ToVec(variant) ==
    /\ \E b \in Serialize(variant) :
          codec' = [codec EXCEPT !.op = "to_vec", !.policy = Some(variant),
                                 !.buf = Some(b)]
    /\ UNCHANGED <<sessionState, fut, hs, eng, rcv>>

\* A buffer written by the peer.
PeerBuffer(descriptor) ==
    /\ codec' = [codec EXCEPT !.op = "peer", !.policy = None,
                              !.buf = Some(Described(descriptor))]
    /\ UNCHANGED <<sessionState, fut, hs, eng, rcv>>

\* from_slice::<LifetimePolicy>(&buf)
FromSlice ==
    /\ IsSome(codec.buf)
    /\ codec' = [codec EXCEPT !.op = "from_slice",
                              !.value = Some(Deserialize(Unwrap(codec.buf)))]
    /\ UNCHANGED <<sessionState, fut, hs, eng, rcv>>

NextCodec ==
    \/ \E v \in DOMAIN Contract : ToVec(v)
    \/ \E d \in Descriptors : PeerBuffer(d)
    \/ FromSlice

SpecCodec == Init /\ [][NextCodec]_vars

\* ------------------------------------------------------------------ inputs
Begins ==
    [next_outgoing_id : {0}, incoming_window : 0..MaxField,
     outgoing_window : {MaxField}]

\* Handles the peer chose for its ends of the links.
InputHandles == {0, 1}

\* Flows without a handle: the session's part alone.
SessionFlows ==
    [next_incoming_id : OptionOf(0..MaxField), incoming_window : 0..MaxField,
     next_outgoing_id : {0}, outgoing_window : {MaxField},
     handle : {None}, delivery_count : {None}, link_credit : {None},
     available : {None}, drain : {FALSE}, echo : {FALSE}]

\* Flows of a receiver peer to one of the session's links.
LinkFlows ==
    [next_incoming_id : {None}, incoming_window : {MaxField},
     next_outgoing_id : {0}, outgoing_window : {MaxField},
     handle : {Some(h) : h \in InputHandles},
     delivery_count : OptionOf(0..1), link_credit : OptionOf(0..MaxField),
     available : {None}, drain : {FALSE}, echo : BOOLEAN]

Attaches ==
    [name : LinkNames, handle : InputHandles, rcv_settle_mode : SettleModes]

\* Output handles of the links that hand Transfers to the session.
TransferHandles == {0, 1}

\* Deliveries the link at handle has started so far: its next delivery-tag.
TagsUsed(handle) ==
    Len(SelectSeq(frames, LAMBDA f : f.handle = handle /\ IsSome(f.delivery_tag)))

\* Transfers a link hands to the session: the first one of a delivery carries
\* the link's next delivery-tag, a further one of the delivery carries none.
Transfers ==
    {t \in [handle : TransferHandles, delivery_tag : OptionOf(0..MaxTransfers)] :
        IF IsSome(t.delivery_tag)
        THEN Unwrap(t.delivery_tag) = TagsUsed(t.handle)
        ELSE TagsUsed(t.handle) > 0}

Dispositions ==
    [role : Roles, first : 0..MaxField, last : OptionOf(0..MaxField),
     settled : BOOLEAN, state : OptionOf({"Accepted"})]

\* ----------------------------------------------------------- specifications
\* The peer's handle for its end of link n.
PeerHandle(n) == IF n = "a" THEN 0 ELSE 1

\* The session's handle allocation under its state machine.
NextAlloc ==
    \/ \E b \in Begins : b.incoming_window = MaxField /\ OnIncomingBegin(b)
    \/ \E w \in BOOLEAN : SendBegin(w)
    \/ \E e, w \in BOOLEAN : SendEnd(e, w)
    \/ \E e \in BOOLEAN : OnIncomingEnd(e)
    \/ \E n \in LinkNames : AllocateLink(n, "Sender")
    \/ \E n \in LinkNames : AllocateIncomingLink(n, "Receiver", PeerHandle(n))
    \/ \E n \in LinkNames : DeallocateLink(n)
    \/ \E a \in Attaches : a.rcv_settle_mode = "First" /\ a.handle = PeerHandle(a.name)
                           /\ OnIncomingAttach(a)

SpecAlloc == Init /\ [][NextAlloc]_vars

\* The session's transfer-id window under any sequence of outgoing Transfers
\* and incoming Flows.
NextWindow ==
    \/ \E b \in Begins : OnIncomingBegin(b)
    \/ SendBegin(TRUE)
    \/ \E t \in Transfers : OnOutgoingTransfer(t)
    \/ \E f \in SessionFlows : OnIncomingFlow(f)

SpecWindow == Init /\ [][NextWindow]_vars

\* One sender link of a mapped session: its credit under any interleaving of
\* send calls and the receiver's Flows.
NextCredit ==
    \/ \E b \in Begins : b.incoming_window = MaxField /\ OnIncomingBegin(b)
    \/ SendBegin(TRUE)
    \/ AllocateLink("a", "Sender")
    \/ \E a \in Attaches : a.name = "a" /\ a.handle = 0 /\ OnIncomingAttach(a)
    \/ \E f \in LinkFlows : f.handle = Some(0) /\ OnIncomingFlow(f)
    \/ \E settled \in BOOLEAN : SendCall("a", settled)
    \/ AwaitNotified("a")
    \/ ConsumeWake("a")
    \/ \E more \in BOOLEAN : EmitTransfer("a", more)
    \/ \E more \in BOOLEAN : EmitContinuation("a", more)

SpecCredit == Init /\ [][NextCredit]_vars

\* Sender links of a mapped session: sends and the dispositions that settle
\* them.
SenderNames == {"a", "b"}

GrantFlows ==
    {f \in LinkFlows : f.delivery_count = None /\ f.link_credit = Some(MaxField)
                       /\ ~f.echo}

\* SessionEngine::begin sends the Begin and takes the peer's once, before
\* anything else.
Handshake ==
    \/ local_state = "Unmapped" /\ SendBegin(TRUE)
    \/ local_state = "BeginSent"
       /\ \E b \in Begins : b.incoming_window = MaxField /\ OnIncomingBegin(b)

\* Link "a" sends and is settled; link "b" is only another live relay.
Next ==
    \/ Handshake
    \/ \E n \in SenderNames : AllocateLink(n, "Sender")
    \/ \E a \in Attaches : a.name = "a" /\ a.handle = PeerHandle("a")
                           /\ OnIncomingAttach(a)
    \/ \E f \in GrantFlows : f.handle = Some(PeerHandle("a")) /\ OnIncomingFlow(f)
    \/ \E settled \in BOOLEAN : next_tag["a"] < MaxSettle /\ SendCall("a", settled)
    \/ AwaitNotified("a")
    \/ ConsumeWake("a")
    \/ EmitTransfer("a", FALSE)
    \/ \E d \in Dispositions : OnIncomingDisposition(d)

Spec == Init /\ [][Next]_vars

\* ------------------------------------------------------ a receiving link
\* The next Transfer of the sender peer on receiver link "c": transfer-ids and
\* delivery-tags count up from the Begin's next-outgoing-id.
IncomingTransfers ==
    {[handle |-> PeerHandle("c"), delivery_id |-> next_incoming_id,
      delivery_tag |-> next_incoming_id, settled |-> settled] :
        settled \in BOOLEAN}

\* Link "c" receives: the peer sends Transfers and Dispositions, the link
\* sends its own Dispositions.
NextSecond ==
    \/ Handshake
    \/ AllocateLink("c", "Receiver")
    \/ \E a \in Attaches : a.name = "c" /\ a.handle = PeerHandle("c")
                           /\ OnIncomingAttach(a)
    \/ \E t \in IncomingTransfers :
          next_incoming_id < MaxTransfers /\ OnIncomingTransfer(t)
    \/ \E d \in Dispositions : d.role = "Receiver" /\ OnOutgoingDisposition(d)
    \/ \E d \in Dispositions : OnIncomingDisposition(d)

SpecSecond == Init /\ [][NextSecond]_vars

\* -------------------------------------------------------- a send future
\* DeliveryState values a Disposition carries: the kind and its content.
DeliveryStates ==
    [kind : {"Accepted", "Rejected", "Released", "Modified", "Received"},
     payload : 0..MaxField]

\* One delivery's future from its creation to its result.
NextFut ==
    \/ \E tag \in 0..(MaxTag - 1), settled \in BOOLEAN : NewDeliveryFut(tag, settled)
    \/ \E state \in OptionOf(DeliveryStates) : SettleWithState(state)
    \/ DropUnsettled
    \/ PollFut

\* A woken task is polled.
SpecFut == Init /\ [][NextFut]_vars /\ WF_vars(PollFut)

\* ------------------------------------------------------ two ends attach
\* Targets an Attach carries: dynamic, address, dynamic-node-properties.
Targets ==
    [dynamic : BOOLEAN, address : OptionOf({"q"}),
     dynamic_node_properties : OptionOf({"props"})]

\* Both ends of one link run do_attach, each with any target or none.
NextAttach ==
    \/ \E p \in Ends, target \in OptionOf(Targets) : SendAttach(p, target)
    \/ \E p \in Ends : OnAttachReply(p)
    \/ \E p \in Ends : OnDetachReply(p)
    \/ \E p \in Ends : UserDetach(p)

SpecAttach == Init /\ [][NextAttach]_vars

\* ------------------------------------------------- links that come and go
\* Links "a" and "b" are attached, fed Flows by the peer, dropped by their
\* users and attached again.
NextDealloc ==
    \/ Handshake
    \/ \E n \in SenderNames : AllocateLink(n, "Sender")
    \/ \E a \in Attaches : /\ a.name \in SenderNames
                           /\ a.handle = PeerHandle(a.name)
                           /\ a.rcv_settle_mode = "First"
                           /\ OnIncomingAttach(a)
    \/ \E n \in SenderNames : DeallocateLink(n)
    \/ \E f \in GrantFlows : OnIncomingFlow(f)

SpecDealloc == Init /\ [][NextDealloc]_vars

\* ------------------------------------------------ the receiver's first credit
\* Receiver::set_credit: the receiver takes n as its link_credit and sends a
\* Flow that carries its flow state.
SetCredit(r, n) ==
    [r EXCEPT !.flow_state.link_credit = n,
              !.sent = Append(@, AsLinkFlow([r.flow_state EXCEPT !.link_credit = n],
                                            PeerHandle("a"), FALSE))]

\* Builder::attach of a receiver: a fresh flow state, the attach exchange,
\* and for CreditMode::Auto(credit) a set_credit(credit) before it returns.
ReceiverAttach(credit_mode) ==
    /\ rcv.pc = "detached"
    /\ \E r \in {[rcv EXCEPT !.pc = "attached", !.credit_mode = Some(credit_mode),
                              !.flow_state = NewFlowState]} :
          rcv' = IF credit_mode.auto THEN SetCredit(r, credit_mode.credit) ELSE r
    /\ UNCHANGED <<sessionState, fut, hs, eng, codec>>

\* The application of the receiver sets the credit.
SetCreditCall(n) ==
    /\ rcv.pc = "attached"
    /\ Len(rcv.sent) < MaxArrivals
    /\ rcv' = SetCredit(rcv, n)
    /\ UNCHANGED <<sessionState, fut, hs, eng, codec>>

\* A Flow of the receiver as the sender's session gets it.
IncomingOf(link_flow) ==
    [next_incoming_id |-> None, incoming_window |-> MaxField,
     next_outgoing_id |-> 0, outgoing_window |-> MaxField,
     handle |-> Some(link_flow.handle), delivery_count |-> link_flow.delivery_count,
     link_credit |-> link_flow.link_credit, available |-> link_flow.available,
     drain |-> link_flow.drain, echo |-> link_flow.echo]

\* ------------------------------------------------- transactional acquisition
\* Builder::properties: the link properties the flow state starts with.
BuilderProperties(fields) ==
    /\ rcv.pc = "detached"
    /\ rcv' = [rcv EXCEPT !.properties = Some(fields)]
    /\ UNCHANGED <<sessionState, fut, hs, eng, codec>>

\* Transaction::acquire(recver, credit) of the transaction txn_id.  In the
\* None arm the new Fields is a local that is dropped at the end of the arm:
\* writer.properties is not assigned.
Acquire(txn_id, credit) ==
    /\ rcv.pc = "attached"
    /\ Len(rcv.sent) < MaxArrivals
    /\ IF IsSome(rcv.properties) /\ "txn-id" \in DOMAIN Unwrap(rcv.properties)
       THEN /\ ev' = [op |-> "acquire", txn_id |-> txn_id, credit |-> credit,
                      res |-> "NotImplemented"]
            /\ UNCHANGED rcv
       ELSE /\ ev' = [op |-> "acquire", txn_id |-> txn_id, credit |-> credit,
                      res |-> "Ok"]
            /\ \E fields \in {IF IsSome(rcv.properties)
                                   THEN Some(MapPut(Unwrap(rcv.properties), "txn-id", txn_id))
                                   ELSE None} :
                  rcv' = SetCredit([rcv EXCEPT !.properties = fields], credit)
    /\ UNCHANGED <<overflow_checks, panicked, sessVars, allocVars, delivery_tag_by_id,
                   linkVars, frames, fut, hs, eng, codec>>

\* A receiver built with or without properties, attached, and used by
\* transactions 1..MaxField for acquisitions.
NextAcquire ==
    \/ \E fields \in {EmptyMap, [k \in {"x"} |-> 0]}
                        \cup {[k \in {"txn-id"} |-> t] : t \in 1..MaxField} :
          BuilderProperties(fields)
    \/ \E credit \in 0..MaxField :
          ReceiverAttach([auto |-> credit > 0, credit |-> credit])
    \/ \E n \in 0..MaxField : SetCreditCall(n)
    \/ \E t \in 1..MaxField, credit \in 0..MaxField : Acquire(t, credit)

SpecAcquire == Init /\ [][NextAcquire]_vars

\* ------------------------------------------------------ a fresh link's credit
\* Link "a" is attached at both ends; the sender's application sends at will,
\* the receiver's Flows reach the sender's session.
NextFresh ==
    \/ Handshake
    \/ AllocateLink("a", "Sender")
    \/ \E a \in Attaches : a.name = "a" /\ a.handle = PeerHandle("a")
                           /\ a.rcv_settle_mode = "First" /\ OnIncomingAttach(a)
    \/ \E auto \in BOOLEAN, credit \in 0..MaxField :
          /\ auto \/ credit = 0
          /\ ReceiverAttach([auto |-> auto, credit |-> credit])
    \/ \E n \in 0..MaxField : SetCreditCall(n)
    \/ \E i \in 1..Len(rcv.sent) : OnIncomingFlow(IncomingOf(rcv.sent[i]))
    \/ SendCall("a", FALSE)
    \/ AwaitNotified("a")
    \/ ConsumeWake("a")
    \/ EmitTransfer("a", FALSE)

SpecFresh == Init /\ [][NextFresh]_vars

\* ------------------------------------------------- deliveries both ways
\* Link "a" sends and link "c" receives in one session; the peer sends
\* Transfers for "c" and Dispositions of either role.
NextBoth ==
    \/ Handshake
    \/ AllocateLink("a", "Sender")
    \/ AllocateLink("c", "Receiver")
    \/ \E a \in Attaches : a.name \in {"a", "c"} /\ a.handle = PeerHandle(a.name)
                           /\ a.rcv_settle_mode = "First" /\ OnIncomingAttach(a)
    \/ \E t \in Transfers :
          /\ SlabHas(local_links, t.handle)
          /\ SlabLink(local_links, t.handle) = "a"
          /\ IsSome(t.delivery_tag)
          /\ OnOutgoingTransfer(t)
    \/ \E t \in IncomingTransfers :
          next_incoming_id < MaxTransfers /\ OnIncomingTransfer(t)
    \/ \E d \in Dispositions : d.last = None /\ OnIncomingDisposition(d)

SpecBoth == Init /\ [][NextBoth]_vars

\* ------------------------------------------------- the peer's flow fields
\* Link "a" sends and link "c" receives; the peer's Flows carry any of the
\* link fields, for either link or for the session alone.
NextPeerFlow ==
    \/ Handshake
    \/ AllocateLink("a", "Sender")
    \/ AllocateLink("c", "Receiver")
    \/ \E a \in Attaches : a.name \in {"a", "c"} /\ a.handle = PeerHandle(a.name)
                           /\ a.rcv_settle_mode = "First" /\ OnIncomingAttach(a)
    \/ \E f \in [next_incoming_id : {None}, incoming_window : {MaxField},
                  next_outgoing_id : {0}, outgoing_window : {MaxField},
                  handle : OptionOf(InputHandles),
                  delivery_count : OptionOf({1}), link_credit : OptionOf({MaxField}),
                  available : OptionOf({1}), drain : BOOLEAN, echo : {FALSE}] :
          OnIncomingFlow(f)
    \/ SendCall("a", TRUE)

SpecPeerFlow == Init /\ [][NextPeerFlow]_vars

\* ----------------------------------------------------------- a drained link
\* The receiver of link "a" grants MaxField credits and may ask for a drain;
\* the sender's application sends when it likes.
NextDrain ==
    \/ Handshake
    \/ AllocateLink("a", "Sender")
    \/ \E a \in Attaches : a.name = "a" /\ a.handle = PeerHandle("a")
                           /\ a.rcv_settle_mode = "First" /\ OnIncomingAttach(a)
    \/ \E f \in GrantFlows, drain \in BOOLEAN :
          /\ f.handle = Some(PeerHandle("a"))
          /\ OnIncomingFlow([f EXCEPT !.drain = drain])
    \/ SendCall("a", FALSE)
    \/ AwaitNotified("a")
    \/ ConsumeWake("a")
    \/ EmitTransfer("a", FALSE)

\* The link's own steps are taken when they can be; the application is free.
SpecDrain ==
    /\ Init /\ [][NextDrain]_vars
    /\ WF_vars(AwaitNotified("a")) /\ WF_vars(ConsumeWake("a"))
    /\ WF_vars(EmitTransfer("a", FALSE))

\* ------------------------------------------------------- the engine's loop
\* The one session-level Flow the peer sends in this scenario.
EngineFlow ==
    [next_incoming_id |-> Some(0), incoming_window |-> MaxField,
     next_outgoing_id |-> 0, outgoing_window |-> MaxField,
     handle |-> None, delivery_count |-> None, link_credit |-> None,
     available |-> None, drain |-> FALSE, echo |-> FALSE]

\* begin, then the loop; the peer, the application and the links fill the
\* three channels while the engine works. The connection keeps reading what
\* the session writes.
NextEngine ==
    \/ eng.pc = "begin" /\ local_state = "Unmapped" /\ SendBegin(TRUE)
    \/ eng.pc = "begin" /\ local_state = "BeginSent"
         /\ OnIncomingBegin([next_outgoing_id |-> 0, incoming_window |-> MaxField,
                             outgoing_window |-> MaxField])
    \/ Spawn
    \/ \E src \in {"incoming", "control", "outgoing_link_frames"} : Select(src)
    \/ Taken("incoming", "Flow") /\ OnIncomingFlow(EngineFlow)
    \/ Taken("incoming", "End") /\ OnIncomingEnd(Unwrap(eng.cur).error)
    \/ Taken("control", "End") /\ SendEnd(Unwrap(eng.cur).error, TRUE)
    \/ OnControlTodo
    \/ OnOutgoingLinkFrames
    \/ ControlSendEnd
    \/ EventLoopResult
    \/ \E kind \in {"Flow", "End"}, error \in BOOLEAN :
         (kind = "Flow" => ~error) /\ Arrives(kind, error)
    \/ \E error \in BOOLEAN : HandleEnd(error)
    \/ DropHandle
    \/ \E n \in {"a", "b"} : AllocateLinkCall(n)
    \/ \E h \in TransferHandles : LinkHandsFrame(h)

\* The runtime keeps polling the engine's task.
EngineStep ==
    \/ \E src \in {"incoming", "control", "outgoing_link_frames"} : Select(src)
    \/ Taken("incoming", "Flow") /\ OnIncomingFlow(EngineFlow)
    \/ Taken("incoming", "End") /\ OnIncomingEnd(Unwrap(eng.cur).error)
    \/ Taken("control", "End") /\ SendEnd(Unwrap(eng.cur).error, TRUE)
    \/ OnControlTodo
    \/ OnOutgoingLinkFrames
    \/ ControlSendEnd
    \/ EventLoopResult

SpecEngine == Init /\ [][NextEngine]_vars /\ WF_vars(EngineStep)

\* ------------------------------------------------ credit exhaustion scenario
\* The Flow of a receiver peer that has taken `got` deliveries of link "a" and
\* now allows `credit` more; its session window stays open for every Transfer.
ReceiverFlow(got, credit, echo) ==
    [next_incoming_id |-> Some(got), incoming_window |-> MaxTransfers,
     next_outgoing_id |-> 0, outgoing_window |-> MaxField,
     handle |-> Some(PeerHandle("a")),
     delivery_count |-> Some(got), link_credit |-> Some(credit),
     available |-> None, drain |-> FALSE, echo |-> echo]

\* The delivery-count up to which link n may send: delivery-count + link-credit.
Limit(n) == flow_state[n].delivery_count + flow_state[n].link_credit

\* The receiver grants credit 2 once the link is attached and raises its limit
\* once more later; the sender submits messages one after the other.
NextExhaust ==
    \/ Handshake
    \/ AllocateLink("a", "Sender")
    \/ \E a \in Attaches : a.name = "a" /\ a.handle = PeerHandle("a")
                           /\ OnIncomingAttach(a)
    \/ \E echo \in BOOLEAN :
          /\ Limit("a") = 0
          /\ OnIncomingFlow(ReceiverFlow(0, 2, echo))
    \/ \E echo \in BOOLEAN, more \in 1..MaxField :
          /\ Limit("a") = 2
          /\ OnIncomingFlow(ReceiverFlow(Len(frames), 2 + more - Len(frames), echo))
    \/ \E settled \in BOOLEAN : SendCall("a", settled)
    \/ AwaitNotified("a")
    \/ ConsumeWake("a")
    \/ EmitTransfer("a", FALSE)

\* The sender's task and the session's are polled again whenever they can
\* proceed.
SpecExhaust ==
    /\ Init /\ [][NextExhaust]_vars
    /\ WF_vars(AwaitNotified("a"))
    /\ WF_vars(ConsumeWake("a"))
    /\ WF_vars(EmitTransfer("a", FALSE))

\* ------------------------------------------------------- blocked consumer
\* Flows of the receiver of link "a" that has taken some of the deliveries
\* framed so far: it grants, keeps or takes back credit, never below what the
\* sender has already used.
WakeFlows ==
    {ReceiverFlow(got, credit, echo) :
        got \in 0..Len(frames), credit \in 0..MaxField, echo \in BOOLEAN}

\* The sender's check, its wait on the notifier and the session's handling of
\* a Flow, in every order.
NextWake ==
    \/ Handshake
    \/ AllocateLink("a", "Sender")
    \/ \E a \in Attaches : a.name = "a" /\ a.handle = PeerHandle("a")
                           /\ OnIncomingAttach(a)
    \/ \E f \in WakeFlows :
          /\ Unwrap(f.delivery_count) + Unwrap(f.link_credit)
                >= flow_state["a"].delivery_count
          /\ OnIncomingFlow(f)
    \/ \E settled \in BOOLEAN : SendCall("a", settled)
    \/ AwaitNotified("a")
    \/ ConsumeWake("a")
    \/ EmitTransfer("a", FALSE)

\* A task that can proceed is polled again: the consumer reaches its wait and
\* returns from it when the notifier holds a permit.
SpecWake ==
    /\ Init /\ [][NextWake]_vars
    /\ WF_vars(AwaitNotified("a"))
    /\ WF_vars(ConsumeWake("a"))

\* --------------------------------------------------------------- properties
Tagged(f) == IsSome(f.delivery_tag)

\* The first frames of the deliveries framed so far, in order.
DeliveryFrames == SelectSeq(frames, Tagged)

\* C1 as stated: the delivery_ids of successive deliveries start at
\* initial_outgoing_id and each is exactly one more than the one before it,
\* also when a delivery took several Transfer frames.
C1_SuccessiveDeliveryIds ==
    \A i \in 1..Len(DeliveryFrames) :
        DeliveryFrames[i].delivery_id = Some(InitialOutgoingId + i - 1)

\* C1 amended: the delivery_id of a delivery is initial_outgoing_id plus the
\* number of Transfer frames the session framed before its first frame, so it
\* is one more than the previous delivery_id only after a single-frame
\* delivery; frames without a delivery-tag get no delivery_id.
C1_DeliveryIdCountsFrames ==
    \A i \in 1..Len(frames) :
        frames[i].delivery_id =
            IF Tagged(frames[i]) THEN Some((InitialOutgoingId + i - 1) % U32)
            ELSE None

\* A delivery of two frames followed by the first frame of the next one.
C1_Witness ==
    /\ Len(frames) = 3
    /\ Tagged(frames[1]) /\ ~Tagged(frames[2]) /\ Tagged(frames[3])
    /\ frames[2].handle = frames[1].handle
    /\ frames[3].delivery_id = Some(InitialOutgoingId + 2)

\* Credit acquisitions of link n that succeeded: each adds one to delivery_count.
Acquisitions(n) == flow_state[n].delivery_count - InitialDeliveryCount

\* C2: a sender emits the Transfer of a new delivery only after a credit
\* acquisition of its own that found link_credit >= 1: an acquisition in hand
\* saw credit, and the deliveries emitted plus the acquisition in hand are
\* exactly the successful acquisitions, whatever Flows arrived in between.
C2_NoCreditNoSend ==
    \A n \in LinkNames :
        /\ send[n].pc = "acquired" => send[n].seen >= 1
        /\ next_tag[n] + (IF send[n].pc = "acquired" THEN 1 ELSE 0) = Acquisitions(n)

\* A send that found no credit, waited, was woken by a Flow and then acquired
\* the one unit the Flow granted; an earlier delivery is already out.
C2_Witness ==
    /\ ev.op = "notified"
    /\ send["a"].pc = "acquired"
    /\ send["a"].seen = 1
    /\ flow_state["a"].link_credit = 0
    /\ next_tag["a"] >= 1

\* The last handler was Session::on_incoming_flow and it gave a Flow carrying
\* link-credit to the relay of a sender link.
SenderTookFlow ==
    /\ ev.op = "on_incoming_flow"
    /\ ev.link # ""
    /\ link_role[ev.link] = "Sender"
    /\ IsSome(ev.flow.link_credit)

\* delivery-count_rcv + link-credit_rcv - delivery-count_snd of that Flow, as
\* an integer.  (Neither handler changes delivery_count.)
FlowCreditValue ==
    UnwrapOr(ev.flow.delivery_count, InitialDeliveryCount)
        + Unwrap(ev.flow.link_credit) - flow_state[ev.link].delivery_count

\* C3: after the sender link has processed an incoming Flow its link_credit is
\* flow.delivery_count + flow.link_credit - local.delivery_count, with
\* initial_delivery_count for an omitted flow.delivery_count.
C3_FlowSetsCredit ==
    SenderTookFlow =>
        /\ ev.res = "Ok"
        /\ flow_state[ev.link].link_credit = FlowCreditValue

\* C4: the sender's link_credit never goes below zero: the value a Flow sets
\* it to is never negative, so the unsigned subtraction neither panics nor
\* wraps.
C4_CreditNeverUnderflows ==
    /\ panicked # "link_credit"
    /\ SenderTookFlow => FlowCreditValue >= 0

\* C5: after the session has processed an incoming Flow, remote_incoming_window
\* is flow.next_incoming_id + flow.incoming_window - next_outgoing_id, with
\* initial_outgoing_id for an omitted flow.next_incoming_id.
C5_WindowRecomputed ==
    ev.op = "on_incoming_flow" =>
        /\ panicked = "no"
        /\ remote_incoming_window =
               UnwrapOr(ev.flow.next_incoming_id, InitialOutgoingId)
                   + ev.flow.incoming_window - next_outgoing_id

\* C6: the session frames no outgoing Transfer while remote_incoming_window is
\* 0, so the window is never decremented below zero.
C6_NoTransferOnClosedWindow ==
    /\ panicked # "on_outgoing_transfer"
    /\ ev.op = "on_outgoing_transfer" => ev.window >= 1

\* The deliveries of the closed range id..last the ledger knows and whose link
\* relay is live, in ascending order, each with the relay that owns it.
RECURSIVE RangeDeliveries(_, _)
RangeDeliveries(id, last) ==
    IF id > last THEN <<>>
    ELSE (IF id \in DOMAIN delivery_tag_by_id
             /\ SlabHas(local_links, delivery_tag_by_id[id][1])
          THEN <<[id |-> id,
                  link |-> SlabLink(local_links, delivery_tag_by_id[id][1]),
                  tag |-> delivery_tag_by_id[id][2]]>>
          ELSE <<>>)
         \o RangeDeliveries(id + 1, last)

\* C7: an incoming Disposition covering [first, last] (last = first when
\* absent), settled or not, is dispatched exactly once to the owning link relay
\* for each delivery-id of the closed range that has a ledger entry, and for no
\* other delivery-id.
C7_DispositionCoversRange ==
    [][\A d \in Dispositions :
          OnIncomingDisposition(d) =>
              ev'.dispatched = RangeDeliveries(d.first, UnwrapOr(d.last, d.first))]_vars

\* C8: a delivery sent unsettled has an entry under its delivery-tag in the
\* link's unsettled map exactly while its send future has not been given the
\* outcome: the entry is there from the send on, and gone once the outcome has
\* been delivered; a delivery sent pre-settled never has an entry.
C8_UnsettledWhilePending ==
    \A n \in LinkNames :
        /\ DOMAIN unsettled[n] \subseteq DOMAIN outcome[n]
        /\ \A tag \in DOMAIN outcome[n] :
               (outcome[n][tag] = None) <=> (tag \in DOMAIN unsettled[n])
        /\ \A tag \in presettled[n] :
               tag \notin DOMAIN unsettled[n] /\ tag \notin DOMAIN outcome[n]

\* Link "a" has one delivery settled by the receiver as Accepted, its entry
\* gone, and a later one still unsettled.
C8_Witness ==
    /\ 0 \in DOMAIN outcome["a"]
    /\ outcome["a"][0] = Some(Some("Accepted"))
    /\ 0 \notin DOMAIN unsettled["a"]
    /\ 1 \in DOMAIN unsettled["a"]
    /\ outcome["a"][1] = None

\* Handles whose relay is live, and the names of the live relays.
LiveHandles == {k \in 0..(Len(local_links) - 1) : SlabHas(local_links, k)}

\* No two live relays share a name, and link_by_name is exactly the live
\* relays by name.
LiveNamesDistinct ==
    /\ \A j, k \in LiveHandles :
           SlabLink(local_links, j) = SlabLink(local_links, k) => j = k
    /\ \A n \in DOMAIN link_by_name :
           link_by_name[n] \in LiveHandles /\ SlabLink(local_links, link_by_name[n]) = n
    /\ \A k \in LiveHandles : SlabLink(local_links, k) \in DOMAIN link_by_name

\* A call of allocate_link or allocate_incoming_link for link_name n.
AllocCall(n) ==
    \/ AllocateLink(n, "Sender")
    \/ \E h \in InputHandles : AllocateIncomingLink(n, "Receiver", h)

\* C9 as stated: no two live relays share a name; allocating a name that is
\* present returns DuplicatedLinkName and allocates nothing; after
\* deallocate_link the name can be allocated again.
C9_DuplicateNameRejected ==
    /\ []LiveNamesDistinct
    /\ [][\A n \in LinkNames :
            /\ (AllocCall(n) /\ n \in DOMAIN link_by_name) =>
                   (ev'.res = "DuplicatedLinkName" /\ UNCHANGED allocVars)
            /\ (DeallocateLink(n) /\ n \in DOMAIN link_by_name) =>
                   (n \notin DOMAIN link_by_name' /\ slab_next' <= HandleMax)]_vars

\* C9 amended: no two live relays share a name; allocating a name that is
\* present allocates nothing and returns DuplicatedLinkName when the session is
\* Mapped and IllegalState in every other session state; after deallocate_link
\* the name is absent and a handle is free, so a Mapped session allocates it.
C9_DuplicateNameAllocatesNothing ==
    /\ []LiveNamesDistinct
    /\ [][\A n \in LinkNames :
            /\ (AllocCall(n) /\ n \in DOMAIN link_by_name) =>
                   /\ ev'.res = (IF local_state = "Mapped" THEN "DuplicatedLinkName"
                                 ELSE "IllegalState")
                   /\ UNCHANGED allocVars
            /\ (DeallocateLink(n) /\ n \in DOMAIN link_by_name) =>
                   /\ n \notin DOMAIN link_by_name'
                   /\ slab_next' <= HandleMax
                   /\ ev'.res = "Ok"]_vars

\* A Mapped session with another live link has just refused a name that is
\* taken.
C9_Witness ==
    /\ ev.op = "allocate_link"
    /\ ev.res = "DuplicatedLinkName"
    /\ ev.name \in DOMAIN link_by_name
    /\ Cardinality(LiveHandles) = 2

\* Every allocated output handle is within handle_max, so at most
\* handle_max + 1 links are live.
HandlesWithinMax ==
    /\ \A k \in LiveHandles : k <= HandleMax
    /\ \A n \in DOMAIN link_by_name : link_by_name[n] <= HandleMax
    /\ Cardinality(LiveHandles) <= HandleMax + 1

\* An index that was allocated and then freed is waiting in the slab.
FreedIndexWaiting == \E k \in 0..(Len(local_links) - 1) : ~SlabHas(local_links, k)

\* A successful allocation takes a freed index when there is one, before any
\* index the slab has not used yet.
ReusesFreedIndex(n) ==
    (AllocCall(n) /\ ev'.res = "Ok" /\ FreedIndexWaiting) =>
        /\ ev'.handle < Len(local_links)
        /\ ~SlabHas(local_links, ev'.handle)
        /\ Len(local_links') = Len(local_links)

\* C10 as stated: allocate_link returns HandleMaxReached exactly when the next
\* free handle index is greater than handle_max; every allocated handle is
\* <= handle_max, at most handle_max + 1 links are live, and freed indices are
\* reused before larger ones are taken.
C10_HandleMaxReachedExactly ==
    /\ []HandlesWithinMax
    /\ [][\A n \in LinkNames :
            /\ AllocCall(n) =>
                   ((ev'.res = "HandleMaxReached") <=> (VacantKey > HandleMax))
            /\ ReusesFreedIndex(n)]_vars

\* C10 amended: allocate_link returns HandleMaxReached exactly when the session
\* is Mapped, the name is not present and the next free handle index is
\* greater than handle_max (IllegalState and DuplicatedLinkName are decided
\* first); every allocated handle is <= handle_max, at most handle_max + 1
\* links are live, and freed indices are reused before larger ones are taken.
C10_HandleMaxReachedAfterOtherChecks ==
    /\ []HandlesWithinMax
    /\ [][\A n \in LinkNames :
            /\ AllocCall(n) =>
                   ((ev'.res = "HandleMaxReached")
                        <=> (/\ local_state = "Mapped"
                             /\ n \notin DOMAIN link_by_name
                             /\ VacantKey > HandleMax))
            /\ ReusesFreedIndex(n)]_vars

\* With handle_max + 1 links live, a further name has just been refused with
\* HandleMaxReached.
C10_Witness ==
    /\ ev.op \in {"allocate_link", "allocate_incoming_link"}
    /\ ev.res = "HandleMaxReached"
    /\ ev.handle = HandleMax + 1
    /\ Cardinality(LiveHandles) = HandleMax + 1

\* The edges of the session state machine: Unmapped -> BeginSent |
\* BeginReceived -> Mapped -> EndSent | EndReceived -> Unmapped, and
\* Mapped -> Discarding -> Unmapped.
SessionEdges ==
    {<<"Unmapped", "BeginSent">>, <<"Unmapped", "BeginReceived">>,
     <<"BeginSent", "Mapped">>, <<"BeginReceived", "Mapped">>,
     <<"Mapped", "EndSent">>, <<"Mapped", "EndReceived">>,
     <<"Mapped", "Discarding">>,
     <<"EndSent", "Unmapped">>, <<"EndReceived", "Unmapped">>,
     <<"Discarding", "Unmapped">>}

\* C11: under any sequence of send_begin, on_incoming_begin, send_end and
\* on_incoming_end, local_state moves only along the edges of the session
\* state machine, Discarding is entered only by send_end with an error, and
\* a session that has not reached Mapped is never moved to EndReceived.
C11_StateMachineEdges ==
    [][/\ local_state' # local_state => <<local_state, local_state'>> \in SessionEdges
       /\ (local_state' = "Discarding" /\ local_state # "Discarding") =>
              \E w \in BOOLEAN : SendEnd(TRUE, w)]_vars

\* C12: every incoming Attach is either matched by name to a local link, its
\* input handle bound to that link's output handle, or, when no local link has
\* the name, allocated a new local handle within handle_max; it never fails
\* the session for its name being unknown.
C12_AttachMatchedOrAllocated ==
    ev.op = "on_incoming_attach" =>
        /\ ev.res = "Ok"
        /\ ev.link \in DOMAIN link_by_name
        /\ link_by_name[ev.link] <= HandleMax
        /\ \E h \in DOMAIN link_by_input_handle :
               link_by_input_handle[h] = link_by_name[ev.link]

\* Deliveries of link n that took a credit: those framed and the one in hand.
Submitted(n) == next_tag[n] + (IF send[n].pc = "acquired" THEN 1 ELSE 0)

\* The send of link n found no credit and has not acquired since.
Suspended(n) == send[n].pc \in {"checked", "waiting"}

C14_NoLostWakeup ==
    /\ [](/\ panicked = "no"
          /\ (Suspended("a") /\ flow_state["a"].link_credit >= 1) => notified["a"]
          /\ send["a"].pc = "acquired" => send["a"].seen >= 1)
    /\ (Suspended("a") /\ flow_state["a"].link_credit >= 1)
          ~> (send["a"].pc = "acquired" \/ flow_state["a"].link_credit = 0)

\* The Flow that raised the credit came after the failed check and before the
\* consumer reached its wait.
C14_Witness ==
    /\ ev.op = "on_incoming_flow"
    /\ ev.link = "a"
    /\ send["a"].pc = "checked"
    /\ flow_state["a"].link_credit >= 1
    /\ notified["a"]

\* What C15 asks of one delivery of the unsettled map that Disposition d
\* covers.
DispositionApplied(d, hit) ==
    IF d.settled
    THEN /\ hit.tag \notin DOMAIN unsettled'[hit.link]
         /\ outcome[hit.link][hit.tag] = None
         /\ outcome'[hit.link][hit.tag] = Some(d.state)
    ELSE /\ hit.tag \in DOMAIN unsettled'[hit.link]
         /\ unsettled'[hit.link][hit.tag] =
                IF IsSome(d.state) THEN d.state ELSE unsettled[hit.link][hit.tag]
         /\ outcome'[hit.link][hit.tag] = None

\* C15: a Disposition of the receiver peer that covers a delivery of the
\* sender's unsettled map, when settled, removes the entry and signals its
\* one-shot, not signalled before, with the Disposition's state; when not
\* settled it leaves the entry, replaces the stored state by the Disposition's
\* state if it has one, and leaves the send future unresolved.
C15_DispositionOnUnsettled ==
    [][\A d \in Dispositions :
          (d.role = "Receiver" /\ OnIncomingDisposition(d)) =>
              LET covered == RangeDeliveries(d.first, UnwrapOr(d.last, d.first))
              IN \A i \in 1..Len(covered) :
                    covered[i].tag \in DOMAIN unsettled[covered[i].link] =>
                        DispositionApplied(d, covered[i])]_vars

\* The delivery-ids the echo Dispositions cover.
EchoIds(echoes) ==
    UNION {echoes[i].first..UnwrapOr(echoes[i].last, echoes[i].first) :
              i \in 1..Len(echoes)}

\* The delivery-ids of [first, last] that belong to links in mode Second.
SecondIds(first, last) ==
    LET covered == RangeDeliveries(first, last)
    IN {covered[i].id : i \in {j \in 1..Len(covered) :
                                  receiver_settle_mode[covered[j].link] = "Second"}}

\* C16: for a not-settled Disposition of the receiver peer the session emits
\* settled echo Dispositions that together cover exactly the covered
\* delivery-ids of links in receiver-settle-mode Second, the last covered id
\* and a single-delivery Disposition included, one echo for each maximal run;
\* deliveries of links in mode First are in no echo.
C16_EchoCoversSecond ==
    [][\A d \in Dispositions :
          (d.role = "Receiver" /\ ~d.settled /\ OnIncomingDisposition(d)) =>
              /\ EchoIds(ev'.echoes) = SecondIds(d.first, UnwrapOr(d.last, d.first))
              /\ \A i \in 1..Len(ev'.echoes) :
                    /\ ev'.echoes[i].settled
                    /\ ev'.echoes[i].role = "Sender"
                    /\ \A j \in 1..Len(ev'.echoes) :
                          i < j => UnwrapOr(ev'.echoes[i].last, ev'.echoes[i].first) + 1
                                     < ev'.echoes[j].first]_vars

\* C17: on a receiver link that settles second a delivery stays in the
\* unsettled map when the link sends its own not-settled Disposition, and the
\* sender's settled Disposition (role Sender) covering it is handled without
\* failing the session and settles it locally: its entry is gone afterwards.
C17_SecondModeSettles ==
    [][/\ \A d \in Dispositions :
             (~d.settled /\ OnOutgoingDisposition(d)) => unsettled' = unsettled
       /\ \A d \in Dispositions :
             (d.role = "Sender" /\ d.settled /\ OnIncomingDisposition(d)) =>
                 LET covered == RangeDeliveries(d.first, UnwrapOr(d.last, d.first))
                 IN /\ panicked' = "no"
                    /\ \A i \in 1..Len(covered) :
                          link_role[covered[i].link] = "Receiver" =>
                              covered[i].tag \notin DOMAIN unsettled'[covered[i].link]]_vars

\* C18: a send future whose one-shot delivered a DeliveryState resolves to Ok
\* with the outcome of the same kind and content for Accepted, Rejected,
\* Released and Modified, to the error NonTerminalDeliveryState for Received,
\* and to the error IllegalDeliveryState when the settlement carried no state.
C18_OutcomeOfState ==
    (fut.chan = "sent" /\ IsSome(fut.result)) =>
        LET r == Unwrap(fut.result) IN
        IF fut.value = None
        THEN ~r.ok /\ r.kind = "IllegalDeliveryState"
        ELSE IF Unwrap(fut.value).kind = "Received"
        THEN ~r.ok /\ r.kind = "NonTerminalDeliveryState"
        ELSE /\ r.ok
             /\ r.kind = Unwrap(fut.value).kind
             /\ r.payload = Unwrap(fut.value).payload

\* A delivery settled as Rejected with content 1 after the future had been
\* polled once: the future gave Ok(Rejected) with that content.
C18_Witness ==
    /\ fut.chan = "sent"
    /\ fut.polls = 2
    /\ fut.value = Some([kind |-> "Rejected", payload |-> 1])
    /\ fut.result = Some([ok |-> TRUE, kind |-> "Rejected", payload |-> 1])

\* C19: when the one-shot sender of a delivery that was not pre-settled is
\* dropped before anything was sent on it, the send future becomes ready, and
\* what it gives is the error IllegalSessionState, never an outcome.
C19_DroppedSender ==
    /\ [](fut.chan = "closed" /\ IsSome(fut.result) =>
             /\ ~Unwrap(fut.result).ok
             /\ Unwrap(fut.result).kind = "IllegalSessionState")
    /\ (fut.chan = "closed") ~> IsSome(fut.result)

\* The future was pending after its first poll, the sender was dropped, and
\* the second poll gave the error.
C19_Witness ==
    /\ fut.settlement = "Unsettled"
    /\ fut.chan = "closed"
    /\ fut.polls = 2
    /\ fut.result = Some([ok |-> FALSE, kind |-> "IllegalSessionState", payload |-> 0])

\* C20: the future of a pre-settled send is ready at its first poll with
\* Ok(Accepted), no settlement having gone through a one-shot, and that poll
\* does come.
C20_PreSettledAccepted ==
    /\ [](fut.settlement = "Settled" =>
             /\ fut.chan = "none"
             /\ fut.polls <= 1
             /\ fut.polls = 1 =>
                   fut.result = Some([ok |-> TRUE, kind |-> "Accepted", payload |-> 0]))
    /\ (fut.settlement = "Settled") ~> IsSome(fut.result)

\* A pre-settled send polled once.
C20_Witness ==
    /\ fut.settlement = "Settled"
    /\ fut.polls = 1
    /\ IsSome(fut.result)
    /\ Unwrap(fut.result).ok

\* C21: an end that receives an Attach without target sends its Detach in
\* the step that handles this Attach, not after a further frame of the peer;
\* so the two ends are never both waiting for the other's Detach.
C21_DetachAtOnce ==
    /\ [][\A p \in Ends :
            (/\ OnAttachReply(p)
             /\ Head(hs.inbox[p]).kind = "Attach"
             /\ Head(hs.inbox[p]).target = None)
            => /\ Len(hs'.inbox[OtherEnd(p)]) = Len(hs.inbox[OtherEnd(p)]) + 1
               /\ hs'.inbox[OtherEnd(p)][Len(hs'.inbox[OtherEnd(p)])] = DetachFrame]_vars
    /\ [](~(\A p \in Ends : hs.pc[p] = "await_detach"))

\* C22: the end with role Sender accepts the peer's target exactly when
\* dynamic implies that the address is set and not dynamic implies that
\* dynamic-node-properties is unset; the end with role Receiver exactly when
\* dynamic implies that the address is unset and not dynamic implies that
\* dynamic-node-properties is unset; a rejection carries NotAllowed.
C22_TargetVerification ==
    \A p \in Ends :
        IsSome(hs.verdict[p]) =>
            LET t == Unwrap(hs.verdict[p]).target
                r == Unwrap(hs.verdict[p]).result
            IN /\ r.ok <=>
                    /\ t.dynamic => (IF EndRole(p) = "Sender" THEN t.address # None
                                     ELSE t.address = None)
                    /\ ~t.dynamic => t.dynamic_node_properties = None
               /\ ~r.ok => r.condition = "NotAllowed"

\* The sending end has rejected a dynamic target without address, the
\* receiving end has accepted one.
C22_Witness ==
    /\ IsSome(hs.verdict["snd"])
    /\ Unwrap(hs.verdict["snd"]).target.dynamic
    /\ Unwrap(hs.verdict["snd"]).target.address = None
    /\ ~Unwrap(hs.verdict["snd"]).result.ok
    /\ IsSome(hs.verdict["rcv"])
    /\ Unwrap(hs.verdict["rcv"]).target.dynamic
    /\ Unwrap(hs.verdict["rcv"]).target.address = None
    /\ Unwrap(hs.verdict["rcv"]).result.ok

\* C23: the handling of a Flow routed to a link yields, when the Flow asks for
\* an echo, exactly one reply Flow with the link's handle and its
\* delivery_count, link_credit, available and drain as they are after the
\* Flow was applied, and with echo = false; when it does not ask, no reply.
C23_EchoOnce ==
    (ev.op = "on_incoming_flow" /\ ev.link # "") =>
        ev.echo = IF ev.flow.echo
                  THEN Some([handle |-> link_by_name[ev.link],
                             delivery_count |-> Some(flow_state[ev.link].delivery_count),
                             link_credit |-> Some(flow_state[ev.link].link_credit),
                             available |-> Some(flow_state[ev.link].available),
                             drain |-> flow_state[ev.link].drain,
                             echo |-> FALSE])
                  ELSE None

\* C24: the engine handles one event at a time: incoming frames are taken in
\* arrival order, session state changes only in the handler of the one event
\* the engine holds, and every Transfer a link hands to the session is framed
\* in one step that gives it delivery_id = next_outgoing_id and records the
\* ledger entry of that id.
C24_OneEventAtATime ==
    /\ [][eng'.taken # eng.taken => eng'.taken = eng.taken + 1]_vars
    /\ [][<<sessVars, delivery_tag_by_id, frames>>' # <<sessVars, delivery_tag_by_id, frames>>
            => /\ eng' = eng
               /\ eng.pc = "begin" \/ (eng.pc = "handle" /\ ev.op = "select")]_vars
    /\ [][(Taken("outgoing_link_frames", "Transfer") /\ ev' # ev)
            => /\ panicked' = "no"
               /\ Len(frames') = Len(frames) + 1
               /\ frames'[Len(frames')].handle = Unwrap(eng.cur).seq
               /\ frames'[Len(frames')].delivery_id = Some(next_outgoing_id)
               /\ next_outgoing_id \in DOMAIN delivery_tag_by_id'
               /\ \A i \in 1..Len(frames) :
                     frames[i].delivery_id # Some(next_outgoing_id)]_vars

\* C25: an End the engine takes from the peer while the session is Mapped,
\* with or without an error in it, leads to the session's own End being sent:
\* local_state becomes Unmapped and the event loop stops.
C25_EndExchange ==
    (Taken("incoming", "End") /\ local_state = "Mapped")
        ~> (local_state = "Unmapped" /\ eng.pc = "stopped")

\* C26: dropping the SessionHandle hands End(None) to the engine, also when
\* the control channel is full at that moment, and a session that is Mapped
\* after the drop eventually sends its End.
C26_DropStopsLoop ==
    /\ [][(eng.handle = "held" /\ eng'.handle = "dropped")
            => /\ eng'.control # <<>>
               /\ eng'.control # eng.control
               /\ eng'.control[Len(eng'.control)].kind = "End"]_vars
    /\ (eng.handle = "dropped" /\ local_state = "Mapped" /\ panicked = "no")
           ~> (local_state \in {"EndSent", "Unmapped"})

\* C27: an incoming Flow reaches only the relay of the link the peer attached
\* with the Flow's handle; once that link is deallocated the handle routes to
\* no relay, also after the freed output handle was given to another link.
C27_NoRouteAfterDeallocate ==
    (ev.op = "on_incoming_flow" /\ ev.link # "")
        => Unwrap(ev.flow.handle) = PeerHandle(ev.link)

\* The handle of an incoming Transfer is bound to a live relay.
Bound(handle) ==
    /\ handle \in DOMAIN link_by_input_handle
    /\ SlabHas(local_links, link_by_input_handle[handle])

\* C28: an incoming Transfer with a bound handle moves next_incoming_id up by
\* exactly 1 and remote_outgoing_window down by exactly 1 and is delivered to
\* the relay bound to its handle and to no other; one with an unbound handle
\* is delivered to no link and is an UnattachedHandle error.
C28_IncomingTransfer ==
    [][\A t \in IncomingTransfers :
          OnIncomingTransfer(t) =>
              IF Bound(t.handle)
              THEN /\ next_incoming_id' = next_incoming_id + 1
                   /\ remote_outgoing_window' = remote_outgoing_window - 1
                   /\ ev'.res = "Ok"
                   /\ ev'.link = SlabLink(local_links, link_by_input_handle[t.handle])
                   /\ \A n \in LinkNames \ {ev'.link} : unsettled'[n] = unsettled[n]
              ELSE /\ ev'.res = "UnattachedHandle"
                   /\ ev'.link = ""
                   /\ unsettled' = unsettled
                   /\ delivery_tag_by_id' = delivery_tag_by_id]_vars

\* C29: an outgoing Transfer with a delivery_tag is framed with delivery_id =
\* next_outgoing_id and the ledger gains delivery_id -> (handle, delivery_tag);
\* one without a delivery_tag is framed with no delivery_id and the ledger is
\* left alone; either way next_outgoing_id goes up by exactly 1 and
\* remote_incoming_window down by exactly 1.
C29_OutgoingTransfer ==
    [][\A t \in Transfers :
          OnOutgoingTransfer(t) =>
              /\ panicked' = "no"
              /\ frames' = Append(frames,
                     [handle |-> t.handle, delivery_tag |-> t.delivery_tag,
                      delivery_id |-> IF IsSome(t.delivery_tag)
                                      THEN Some(next_outgoing_id) ELSE None])
              /\ delivery_tag_by_id' =
                     IF IsSome(t.delivery_tag)
                     THEN MapPut(delivery_tag_by_id, next_outgoing_id,
                                 <<t.handle, Unwrap(t.delivery_tag)>>)
                     ELSE delivery_tag_by_id
              /\ next_outgoing_id' = next_outgoing_id + 1
              /\ remote_incoming_window' = remote_incoming_window - 1]_vars

\* The flow state of a link nothing has happened on.
Untouched(st) ==
    /\ st.link_credit = 0
    /\ st.available = 0
    /\ st.drain = FALSE
    /\ st.delivery_count = st.initial_delivery_count

\* C30: a link starts with link_credit 0, available 0, drain false and
\* delivery_count = initial_delivery_count at both ends; the session frames no
\* Transfer of the link before the receiver has sent a Flow with link_credit
\* > 0; a receiver attached with Auto(n) has sent exactly one Flow, with
\* link_credit n, when attach returns, a Manual one has sent none, and every
\* later Flow of the receiver is sent by a set_credit call.
C30_FreshLinkCredit ==
    /\ [][(AllocateLink("a", "Sender") /\ ev'.res = "Ok")
            => Untouched(flow_state'["a"])]_vars
    /\ [][(rcv.pc = "detached" /\ rcv'.pc = "attached")
            => \E m \in {Unwrap(rcv'.credit_mode)} :
                 /\ Untouched([rcv'.flow_state EXCEPT !.link_credit = 0])
                 /\ rcv'.flow_state.link_credit = IF m.auto THEN m.credit ELSE 0
                 /\ IF m.auto
                    THEN /\ Len(rcv'.sent) = 1
                         /\ rcv'.sent[1].link_credit = Some(m.credit)
                    ELSE rcv'.sent = <<>>]_vars
    /\ [][(rcv.pc = "attached" /\ rcv'.sent # rcv.sent)
            => \E n \in 0..MaxField : SetCreditCall(n)]_vars
    /\ [](frames # <<>> =>
             \E i \in 1..Len(rcv.sent) : Unwrap(rcv.sent[i].link_credit) > 0)

\* The sender has had a Transfer framed on the one Flow an Auto receiver
\* sent at attach.
C30_Witness ==
    /\ frames # <<>>
    /\ rcv.credit_mode = Some([auto |-> TRUE, credit |-> MaxField])
    /\ Len(rcv.sent) = 1
    /\ flow_state["a"].delivery_count = InitialDeliveryCount + 1

\* C31: a Flow with drain = true that reaches a sender with credit left and
\* nothing to send leads to the sender having used the credit up: link_credit
\* is 0 and delivery_count is the receiver's delivery limit.
C31_DrainUsesCreditUp ==
    (/\ ev.op = "on_incoming_flow" /\ ev.res = "Ok" /\ ev.link = "a"
     /\ ev.flow.drain
     /\ send["a"].pc = "idle"
     /\ flow_state["a"].link_credit > 0)
        ~> (/\ flow_state["a"].link_credit = 0
            /\ flow_state["a"].delivery_count = InitialDeliveryCount + MaxField)

\* What the descriptor of a lifetime policy stands for: one variant per code
\* 0x2b..0x2e and per name, nothing for any other descriptor.
PolicyOf(descriptor) ==
    CASE descriptor \in {Ulong(43), Symbol("amqp:delete-on-close:list")} ->
            Some("DeleteOnClose")
      [] descriptor \in {Ulong(44), Symbol("amqp:delete-on-no-links:list")} ->
            Some("DeleteOnNoLinks")
      [] descriptor \in {Ulong(45), Symbol("amqp:delete-on-no-messages:list")} ->
            Some("DeleteOnNoMessages")
      [] descriptor \in {Ulong(46), Symbol("amqp:delete-on-no-links-or-messages:list")} ->
            Some("DeleteOnNoLinksOrMessages")
      [] OTHER -> None

\* C32: decoding maps the codes 0x2b, 0x2c, 0x2d, 0x2e and their names to
\* DeleteOnClose, DeleteOnNoLinks, DeleteOnNoMessages,
\* DeleteOnNoLinksOrMessages and fails on every other code or symbol; a
\* policy is encoded as the struct it wraps, and decoding that encoding gives
\* the same variant back.
C32_LifetimePolicyCodec ==
    /\ codec.op = "to_vec" =>
          Unwrap(codec.buf) \in StructEncodings(Unwrap(codec.policy))
    /\ codec.op = "from_slice" =>
          /\ \E want \in {PolicyOf(Unwrap(codec.buf).descriptor)} :
                IF IsSome(want)
                    THEN Unwrap(codec.value) = [ok |-> TRUE, val |-> Unwrap(want)]
                    ELSE ~Unwrap(codec.value).ok
          /\ IsSome(codec.policy) =>
                Unwrap(codec.value) = [ok |-> TRUE, val |-> Unwrap(codec.policy)]

\* A policy other than the first was encoded and decoded, and a buffer with
\* a foreign code was refused.
C32_Witness ==
    /\ codec.op = "from_slice"
    /\ \/ codec.policy = Some("DeleteOnNoMessages")
       \/ /\ codec.policy = None /\ Unwrap(codec.buf).descriptor = Ulong(47)
          /\ ~Unwrap(codec.value).ok

\* The states in which a call of the session's state machine is legal.
LegalStates ==
    [send_begin |-> {"Unmapped", "BeginReceived"},
     on_incoming_begin |-> {"Unmapped", "BeginSent"},
     send_end |-> {"Mapped", "EndReceived"},
     on_incoming_end |-> {"BeginSent", "BeginReceived", "Mapped", "EndSent",
                          "Discarding"},
     allocate_link |-> {"Mapped"}]

\* C33: send_begin, on_incoming_begin, send_end, on_incoming_end and
\* allocate_link called in a state that is not legal for them return the
\* illegal-state error and leave local_state, the window fields, the link
\* tables and the frames written as they were.
C33_IllegalStateChangesNothing ==
    [][(ev'.op \in DOMAIN LegalStates /\ local_state \notin LegalStates[ev'.op]) =>
          /\ ev'.res = "IllegalState"
          /\ UNCHANGED <<sessVars, allocVars, delivery_tag_by_id, linkVars, frames,
                         panicked>>]_vars

\* An End from the peer was refused in EndReceived, with links allocated.
C33_Witness ==
    /\ ev.op = "on_incoming_end" /\ ev.res = "IllegalState"
    /\ local_state = "EndReceived"
    /\ DOMAIN link_by_name # {}

\* C34: an acquire that returns Ok leaves the key txn-id bound to the
\* transaction's id in the receiver's flow-state properties, whether or not
\* the link had a properties map, and has sent a Flow with the credit; an
\* acquire on a link whose properties contain txn-id returns NotImplemented,
\* sends no Flow and leaves the properties as they were.
C34_AcquireBindsTxnId ==
    [][(ev' # ev /\ ev'.op = "acquire") =>
          IF IsSome(rcv.properties) /\ "txn-id" \in DOMAIN Unwrap(rcv.properties)
              THEN /\ ev'.res = "NotImplemented"
                   /\ rcv'.sent = rcv.sent
                   /\ rcv'.properties = rcv.properties
              ELSE /\ ev'.res = "Ok"
                   /\ IsSome(rcv'.properties)
                   /\ "txn-id" \in DOMAIN Unwrap(rcv'.properties)
                   /\ Unwrap(rcv'.properties)["txn-id"] = ev'.txn_id
                   /\ Len(rcv'.sent) = Len(rcv.sent) + 1
                   /\ rcv'.sent[Len(rcv'.sent)].link_credit = Some(ev'.credit)]_vars

\* The ledger's entries that belong to links of a role.
EntriesOf(role) ==
    {id \in DOMAIN delivery_tag_by_id :
        /\ SlabHas(local_links, delivery_tag_by_id[id][1])
        /\ link_role[SlabLink(local_links, delivery_tag_by_id[id][1])] = role}

\* The step keeps the ledger's entries of the links of a role.
KeepsEntriesOf(role) ==
    \A id \in EntriesOf(role) :
        /\ id \in DOMAIN delivery_tag_by_id'
        /\ delivery_tag_by_id'[id] = delivery_tag_by_id[id]

\* C35: the ledger's entry of an outgoing delivery is neither overwritten by
\* an incoming Transfer nor removed by a Disposition about incoming
\* deliveries (role = sender), and the entry of an incoming delivery is
\* neither overwritten by an outgoing Transfer nor removed by a Disposition
\* about outgoing deliveries (role = receiver).
C35_LedgerKeepsDirections ==
    [][/\ ev'.op = "on_incoming_transfer" => KeepsEntriesOf("Sender")
       /\ ev'.op = "on_outgoing_transfer" => KeepsEntriesOf("Receiver")
       /\ \A d \in Dispositions :
             (d.last = None /\ OnIncomingDisposition(d)) =>
                 KeepsEntriesOf(IF d.role = "Sender" THEN "Sender" ELSE "Receiver")]_vars

\* C36: when on_incoming_end has taken an End in Mapped and sends
\* SessionControl::End to the session's own control channel, the send is
\* eventually accepted and the handler returns, however many control messages
\* the handles have queued before.
C36_SelfSendCompletes ==
    (OwesEnd /\ panicked = "no") ~> (eng.pc # "handle")

C38_FlowChangesPeerFields ==
    [][ev'.op = "on_incoming_flow" =>
          \A n \in LinkNames :
             /\ (n # ev'.link \/ ev'.flow.handle = None) =>
                   flow_state'[n] = flow_state[n]
             /\ link_role[n] = "Sender" =>
                   /\ flow_state'[n].delivery_count = flow_state[n].delivery_count
                   /\ flow_state'[n].available = flow_state[n].available
                   /\ flow_state'[n].initial_delivery_count
                         = flow_state[n].initial_delivery_count
                   /\ ev'.flow.link_credit = None =>
                         flow_state'[n].link_credit = flow_state[n].link_credit
             /\ link_role[n] = "Receiver" =>
                   /\ flow_state'[n].link_credit = flow_state[n].link_credit
                   /\ flow_state'[n].drain = flow_state[n].drain
                   /\ ev'.flow.delivery_count = None =>
                         flow_state'[n].delivery_count = flow_state[n].delivery_count
                   /\ ev'.flow.available = None =>
                         flow_state'[n].available = flow_state[n].available]_vars

\* A Flow with drain set, a link_credit and a delivery_count was applied to
\* the Receiver link, and the Sender link holds a drain flag and credit from
\* an earlier one.
C38_Witness ==
    /\ ev.op = "on_incoming_flow" /\ ev.res = "Ok" /\ ev.link = "c"
    /\ ev.flow.drain /\ IsSome(ev.flow.link_credit)
    /\ flow_state["c"].delivery_count = 1
    /\ flow_state["a"].drain /\ flow_state["a"].link_credit > 0
    /\ flow_state["a"].delivery_count > 0

\* C39: a send_begin or send_end whose frame the connection writer did not
\* take (an Io error) leaves local_state as it was before the call.
C39_IoErrorKeepsState ==
    [][(ev'.op \in {"send_begin", "send_end"} /\ ev'.res = "Io")
          => local_state' = local_state]_vars

\* C40: an allocate_link or allocate_incoming_link that returns
\* DuplicatedLinkName or HandleMaxReached leaves local_links, link_by_name and
\* link_by_input_handle as they were; one that returns Ok has put the new
\* relay into the slot of the returned handle and bound the name to it.
C40_FailedAllocationHasNoEffect ==
    [][ev'.op \in {"allocate_link", "allocate_incoming_link"} =>
          /\ ev'.res \in {"DuplicatedLinkName", "HandleMaxReached"} =>
                /\ UNCHANGED allocVars
                /\ ev'.res = "DuplicatedLinkName" =>
                      /\ ev'.name \in DOMAIN link_by_name
                      /\ link_by_name'[ev'.name] = link_by_name[ev'.name]
          /\ ev'.res = "Ok" =>
                /\ ev'.name \in DOMAIN link_by_name'
                /\ link_by_name'[ev'.name] = ev'.handle
                /\ ~SlabHas(local_links, ev'.handle)
                /\ SlabHas(local_links', ev'.handle)
                /\ SlabLink(local_links', ev'.handle) = ev'.name
                /\ \A x \in DOMAIN link_by_name : link_by_name'[x] = link_by_name[x]]_vars

\* An incoming link was refused for its name while its input handle was not
\* bound, and the handle is still not bound.
C40_Witness ==
    /\ ev.op = "allocate_incoming_link"
    /\ ev.res = "DuplicatedLinkName"
    /\ PeerHandle(ev.name) \notin DOMAIN link_by_input_handle
    /\ DOMAIN link_by_input_handle # {}


====
